---- MODULE Spec2Model ----
(***************************************************************************)
(* A model of transcript-analyzer: the classification pipeline            *)
(* (src/csv_classifier.py: classify_text_with_llm and the atomic dataset   *)
(* rewrite of process_csv_with_llm), the classification step of the window *)
(* (src/gui_app.py) and the segmentation of transcripts into speaker turns *)
(* (src/docx_to_csv/docx_to_csv.py: process_docx_files).                   *)
(*                                                                         *)
(* Specifications.  Spec: one run of the rewrite.  SpecTwice: a second run *)
(* on the result of the first.  SpecClassify: one call of the classifier   *)
(* on every kind of reply.  SpecGui: the rewrite started from the window.  *)
(* SpecDocx: process_docx_files, a step for each line.                     *)
(*                                                                         *)
(* Representation.  A CSV file is the sequence of its rows, a row the      *)
(* sequence of its fields as the csv module reads and writes them (text).  *)
(* A speaker name is a sequence of tokens, so that Python's substring test *)
(* '"Interviewer" in name' is a test on the tokens: <<"Interviewer","M">>  *)
(* stands for the string "InterviewerM".  The statement of the k-th data   *)
(* row is the string of k, so every row's statement is told apart.         *)
(* In the segmentation a text is a sequence of characters, and the pattern *)
(* of speaker lines is matched character by character.                     *)
(***************************************************************************)
EXTENDS Integers, Sequences, FiniteSets, TLC

\* The longest dataset (data rows after the header) that is explored.
MaxRows == 3

---------------------------------------------------------------------------
(* Values *)

\* A credential that Python finds falsy: None or the empty string.
NoKey == ""

\* current_source_file = None
NoSourceFile == "None"

InputPath == "input.csv"
TempPath == "tmpfile"

Placeholder == "(No preceding question. This may be an opening statement or introduction.)"

InterviewerRationale == "Statement from interviewer."

DefaultCategories == <<"Uncategorized">>

Header == << "source_file", <<"name">>, "timestamp", "statement" >>

\* A path with no file under it, and a file with the given rows.
Absent == [exists |-> FALSE, rows |-> << >>]
File(rows) == [exists |-> TRUE, rows |-> rows]

\* The csv module writes len(row) fields and reads them back as many.
MinFields == 4

---------------------------------------------------------------------------
(* Inputs *)

SourceFiles == {"file1.docx", "file2.docx"}
Speakers == { <<"Interviewer", "M">>, <<"Laura">> }

\* A row is empty (a blank line), short (two fields) or full (four fields).
RowShapes == [kind : {"empty", "short"}, file : {"file1.docx"}, name : {<<"Laura">>}]
             \cup [kind : {"full"}, file : SourceFiles, name : Speakers]

MkRow(shape, k) ==
    IF shape.kind = "empty" THEN << >>
    ELSE IF shape.kind = "short" THEN << "only_two_cols", shape.name >>
    ELSE << shape.file, shape.name, "10:00", ToString(k) >>

\* Every dataset of at most MaxRows data rows under the header, and the empty file.
DataRowSeqs ==
    UNION { { [k \in 1..n |-> MkRow(f[k], k)] : f \in [1..n -> RowShapes] } : n \in 0..MaxRows }

Datasets == { << >> } \cup { <<Header>> \o d : d \in DataRowSeqs }

\* (api_key argument, OPENAI_API_KEY of the environment after load_dotenv)
CredentialCases == {NoKey, "sk-arg"} \X {NoKey, "sk-env"}

\* categories argument: missing or empty, or a list with the reserved label.
CategoryChoices == { << >>, <<"Cat1", "Interviewer">> }

---------------------------------------------------------------------------
(* The classification service's replies and json.loads *)

Subthemes(items) == [iterable |-> TRUE, items |-> items]
\* A JSON number where the array of labels is expected.
NotIterable == [iterable |-> FALSE, items |-> << >>]

JsonObject(keys, subthemes, rationale) ==
    [isDict |-> TRUE, keys |-> keys, subthemes |-> subthemes, rationale |-> rationale]
JsonArray == [isDict |-> FALSE, keys |-> {}, subthemes |-> NotIterable, rationale |-> ""]

BothKeys == {"subthemes", "rationale"}

ServiceReplies ==
    { [transport |-> "raise", isJson |-> FALSE, value |-> JsonArray],
      [transport |-> "ok", isJson |-> FALSE, value |-> JsonArray],
      [transport |-> "ok", isJson |-> TRUE, value |-> JsonArray],
      [transport |-> "ok", isJson |-> TRUE,
       value |-> JsonObject({"subthemes"}, Subthemes(<<"Cat1">>), "")],
      [transport |-> "ok", isJson |-> TRUE,
       value |-> JsonObject(BothKeys, Subthemes(<<"Cat1">>), "r")],
      [transport |-> "ok", isJson |-> TRUE,
       value |-> JsonObject(BothKeys, Subthemes(<<"Uncategorized", "Interviewer">>), "r")],
      [transport |-> "ok", isJson |-> TRUE,
       value |-> JsonObject(BothKeys, NotIterable, "r")] }

ErrorResult(diagnostic) == JsonObject(BothKeys, Subthemes(<<"ERROR">>), diagnostic)


---------------------------------------------------------------------------
(* classify_text_with_llm *)

\* openai.api_key = api_key if api_key else os.getenv("OPENAI_API_KEY")
EffectiveKey(key, envKey) == IF key # NoKey THEN key ELSE envKey

\* Faulty variant: the credential is not checked.
CredentialNotChecked(key, envKey) == FALSE

\* "if not openai.api_key": the precondition failure
MissingCredential(key, envKey) == EffectiveKey(key, envKey) = NoKey

\* Faulty variant: the shape check looks for "subthemes" only.
ClassifyResultSubthemesOnly(reply) ==
    IF reply.transport = "raise" THEN ErrorResult("Classification error")
    ELSE IF ~reply.isJson THEN ErrorResult("JSON decoding error")
    ELSE IF ~reply.value.isDict \/ "subthemes" \notin reply.value.keys
         THEN ErrorResult("Classification error")
    ELSE reply.value

\* The try block: the reply is decoded and its shape checked; every failure
\* becomes the ERROR sentinel.
ClassifyResult(reply) ==
    IF reply.transport = "raise" THEN ErrorResult("Classification error")
    ELSE IF ~reply.isJson THEN ErrorResult("JSON decoding error")
    ELSE IF ~reply.value.isDict \/ ~(BothKeys \subseteq reply.value.keys)
         THEN ErrorResult("Classification error")
    ELSE reply.value

\* What the except clauses log.
ClassifyLog(reply) ==
    IF reply.transport = "raise" THEN <<"Error classifying text with LLM">>
    ELSE IF ~reply.isJson THEN <<"Error decoding JSON from LLM response">>
    ELSE IF ~reply.value.isDict \/ ~(BothKeys \subseteq reply.value.keys)
         THEN <<"Error classifying text with LLM">>
    ELSE << >>

---------------------------------------------------------------------------
(* process_csv_with_llm: the pure parts *)

\* "if not categories: categories = [...]"
EffectiveCategories(cats) == IF cats = << >> THEN DefaultCategories ELSE cats

CategorySet(cats) == { cats[k] : k \in 1..Len(cats) }

\* Faulty variant: the header gets no rationale column.
NewHeaderNoRationale(header, cats) == header \o cats

NewHeader(header, cats) == header \o cats \o <<"Rationale">>

\* "if not row or len(row) < 4"
IsShortRow(row) == Len(row) = 0 \/ Len(row) < MinFields

\* Faulty variant: the speaker is compared with the label instead of searched for it.
IsInterviewerExact(name) == name = <<"Interviewer">>

\* is_interviewer = "Interviewer" in name
IsInterviewer(name) == \E k \in 1..Len(name) : name[k] = "Interviewer"

\* Faulty variant: the context is reset on the first document only.
SourceFileChangedFirstOnly(source_file, current) == current = NoSourceFile

\* if source_file != current_source_file
SourceFileChanged(source_file, current) == source_file # current

\* The check for a file change that resets the context.
ResetContext(context, source_file, current) ==
    IF SourceFileChanged(source_file, current) THEN Placeholder ELSE context

\* Faulty variant: an interviewer row does not become the context.
ContextNotUpdated(context, name, statement) == context

\* if is_interviewer: interviewer_context = statement_text
ContextAfterRow(context, name, statement) ==
    IF IsInterviewer(name) THEN statement ELSE context

\* subtheme_scores = {subtheme: 0 for subtheme in categories}
ZeroScores(cats) == [c \in CategorySet(cats) |-> 0]

\* Faulty variant: the interviewer's own flag is not set.
InterviewerScoresUnmarked(cats) == ZeroScores(cats)

\* The interviewer branch: only the "Interviewer" key, when there is one, is set.
InterviewerScores(cats) ==
    [c \in CategorySet(cats) |-> IF c = "Interviewer" THEN 1 ELSE 0]

\* Faulty variant: only the first returned label is looked at.
ApplySubthemesFirstOnly(scores, items) ==
    [c \in DOMAIN scores |-> IF Len(items) > 0 /\ items[1] = c THEN 1 ELSE scores[c]]

\* for subtheme in llm_result["subthemes"]: if subtheme in subtheme_scores: ... = 1
ApplySubthemes(scores, items) ==
    [c \in DOMAIN scores |->
        IF \E k \in 1..Len(items) : items[k] = c THEN 1 ELSE scores[c]]

\* The scores and the rationale of a classified row.
ScoresOf(result, cats) ==
    IF "subthemes" \in result.keys
    THEN ApplySubthemes(ZeroScores(cats), result.subthemes.items)
    ELSE ZeroScores(cats)

RationaleOf(result) ==
    IF "subthemes" \in result.keys /\ "rationale" \in result.keys
    THEN result.rationale ELSE ""

\* new_row = row + the scores in the order of the categories + the rationale;
\* csv.writer writes each score as its decimal text.
NewRow(row, cats, scores, rationale) ==
    row \o [k \in 1..Len(cats) |-> ToString(scores[cats[k]])] \o <<rationale>>

\* Faulty variant: a short row is padded with zero flags and an empty rationale.
ShortRowPadded(row, cats) == NewRow(row, cats, ZeroScores(cats), "")

\* csv_writer.writerow(row) for a row of fewer than 4 fields.
ShortRowOutput(row, cats) == row

\* Faulty variant: the rows are written over the dataset itself.
WriterPathInPlace == InputPath

\* The file csv_writer writes to.
WriterPath == TempPath

\* Faulty variant: each write starts the file again.
WriteRowTruncating(f, row) == [f EXCEPT ![WriterPath].rows = <<row>>]

WriteRow(f, row) == [f EXCEPT ![WriterPath].rows = Append(@, row)]

\* os.replace(temp_file_path, input_csv_path)
ReplaceFile(f) == [f EXCEPT ![InputPath] = f[TempPath], ![TempPath] = Absent]

\* Faulty variant: the except clause leaves the temporary file.
RemoveTempSkipped(f) == f

\* if os.path.exists(temp_file_path): os.remove(temp_file_path)
RemoveTemp(f) == IF f[TempPath].exists THEN [f EXCEPT ![TempPath] = Absent] ELSE f

\* log_callback(...) every fifth row
ProgressLog(idx) == IF (idx + 1) % 5 = 0 THEN <<"Processing row">> ELSE << >>

ResetLog(source_file, current) ==
    IF SourceFileChanged(source_file, current) THEN <<"New source file detected">> ELSE << >>

---------------------------------------------------------------------------
(* docx_to_csv: text.  A text is a sequence of characters. *)

\* current_speaker = None, current_timestamp = None
None == <<"None">>

Newline == "\n"
Colon == ":"

\* \s, and what strip() removes
IsSpace(c) == c \in {" ", "\t", Newline, "\f"}
IsDigit(c) == c \in {"0", "1", "2", "3", "4", "5", "6", "7", "8", "9"}

Least(S) == CHOOSE x \in S : \A y \in S : x <= y
Greatest(S) == CHOOSE x \in S : \A y \in S : y <= x

\* str.strip()
Strip(text) ==
    LET solid == { k \in 1..Len(text) : ~IsSpace(text[k]) }
    IN  IF solid = {} THEN << >>
        ELSE SubSeq(text, Least(solid), Greatest(solid))

\* str.split('\n'): the pieces between the line breaks, one more than the breaks.
RECURSIVE SplitLines(_)
SplitLines(text) ==
    LET breaks == { k \in 1..Len(text) : text[k] = Newline }
    IN  IF breaks = {} THEN << text >>
        ELSE << SubSeq(text, 1, Least(breaks) - 1) >>
             \o SplitLines(SubSeq(text, Least(breaks) + 1, Len(text)))

\* for paragraph in document.paragraphs: for line in paragraph.text.split('\n')
RECURSIVE LinesOf(_)
LinesOf(paragraphs) ==
    IF paragraphs = << >> THEN << >>
    ELSE SplitLines(Head(paragraphs)) \o LinesOf(Tail(paragraphs))

\* Faulty variant: the name is not escaped and its "." stands for any character.
HasAtDotAny(text, p, piece) ==
    /\ p + Len(piece) - 1 <= Len(text)
    /\ \A k \in 1..Len(piece) : piece[k] = "." \/ text[p + k - 1] = piece[k]

\* The text has the literal piece at position p (re.escape: the name is literal).
HasAt(text, p, piece) ==
    /\ p + Len(piece) - 1 <= Len(text)
    /\ \A k \in 1..Len(piece) : text[p + k - 1] = piece[k]

\* The length of the run of whitespace at position p: what a greedy \s* takes.
SpaceRun(text, p) ==
    LET stops == { k \in p..Len(text) : ~IsSpace(text[k]) }
    IN  IF stops = {} THEN Len(text) + 1 - p ELSE Least(stops) - p

\* \d{2}:\d{2} at position p
IsMinSec(text, p) ==
    /\ p + 4 <= Len(text)
    /\ IsDigit(text[p]) /\ IsDigit(text[p + 1])
    /\ text[p + 2] = Colon
    /\ IsDigit(text[p + 3]) /\ IsDigit(text[p + 4])

\* ((\d{1,2}:)?\d{2}:\d{2}) at position p: the length matched, 0 when none.
\* The optional group is tried first, with two digits before one.
TimestampLen(text, p) ==
    IF p + 2 <= Len(text) /\ IsDigit(text[p]) /\ IsDigit(text[p + 1])
       /\ text[p + 2] = Colon /\ IsMinSec(text, p + 3) THEN 8
    ELSE IF p + 1 <= Len(text) /\ IsDigit(text[p]) /\ text[p + 1] = Colon
            /\ IsMinSec(text, p + 2) THEN 7
    ELSE IF IsMinSec(text, p) THEN 5
    ELSE 0

\* (.*) at position p: up to the end of the line.
RestOfLine(text, p) ==
    LET breaks == { k \in p..Len(text) : text[k] = Newline }
    IN  SubSeq(text, p, IF breaks = {} THEN Len(text) ELSE Least(breaks) - 1)

NoMatch == [matched |-> FALSE, group1 |-> << >>, group2 |-> << >>, group4 |-> << >>]

\* Faulty variant: after the name and whitespace any text is accepted.
MatchAfterNameAnyText(text, name, p) ==
    LET gap == SpaceRun(text, p)
    IN  IF gap >= 1 \/ p + gap = Len(text) + 1
        THEN [matched |-> TRUE, group1 |-> name, group2 |-> << >>,
              group4 |-> RestOfLine(text, p + gap)]
        ELSE [matched |-> FALSE, group1 |-> << >>, group2 |-> << >>, group4 |-> << >>]

\* The remainder of speaker_pattern after the name, from position p:
\* (?:\s+(timestamp)\s*(.*)) is tried before (?:\s*$).
MatchAfterName(text, name, p) ==
    LET gap == SpaceRun(text, p)
        ts == TimestampLen(text, p + gap)
        after == p + gap + ts
    IN  IF gap >= 1 /\ ts > 0
        THEN [matched |-> TRUE, group1 |-> name,
              group2 |-> SubSeq(text, p + gap, after - 1),
              group4 |-> RestOfLine(text, after + SpaceRun(text, after))]
        ELSE IF p + gap = Len(text) + 1
        THEN [matched |-> TRUE, group1 |-> name, group2 |-> << >>, group4 |-> << >>]
        ELSE NoMatch

\* ^\s*(name1|name2|...): the leading whitespace is taken greedily and given
\* back one character at a time; at each start the names are tried in the
\* order of the list, and the first that lets the remainder match wins.
\* Faulty variant: the first name the line begins with is the only one tried.
RECURSIVE MatchNamesNoBacktrack(_, _, _, _)
MatchNamesNoBacktrack(text, names, start, k) ==
    IF k > Len(names) THEN NoMatch
    ELSE IF HasAt(text, start, names[k])
    THEN MatchAfterName(text, names[k], start + Len(names[k]))
    ELSE MatchNamesNoBacktrack(text, names, start, k + 1)

RECURSIVE MatchNames(_, _, _, _)
MatchNames(text, names, start, k) ==
    IF k > Len(names) THEN NoMatch
    ELSE LET m == IF HasAt(text, start, names[k])
                  THEN MatchAfterName(text, names[k], start + Len(names[k]))
                  ELSE NoMatch
         IN  IF m.matched THEN m ELSE MatchNames(text, names, start, k + 1)

RECURSIVE MatchFrom(_, _, _)
MatchFrom(text, names, start) ==
    LET m == MatchNames(text, names, start, 1)
    IN  IF m.matched \/ start = 1 THEN m ELSE MatchFrom(text, names, start - 1)

\* Faulty variant: the names are compared without regard to case.
Lower(c) == IF c = "A" THEN "a" ELSE IF c = "B" THEN "b" ELSE c
SpeakerPatternMatchIgnoreCase(text, names) ==
    MatchFrom([k \in 1..Len(text) |-> Lower(text[k])],
              [n \in 1..Len(names) |-> [k \in 1..Len(names[n]) |-> Lower(names[n][k])]],
              SpaceRun(text, 1) + 1)

\* speaker_pattern.match(text)
SpeakerPatternMatch(text, names) == MatchFrom(text, names, SpaceRun(text, 1) + 1)

---------------------------------------------------------------------------
(* docx_to_csv: the pure parts of process_docx_files *)

DefaultSpeakerNames ==
    << <<"I", "n", "t", "e", "r", "v", "i", "e", "w", "e", "r">>,
       <<"R", "e", "s", "p", "o", "n", "d", "e", "n", "t">> >>

\* "if speaker_list: SPEAKER_NAMES = speaker_list, else the two defaults"
SpeakerNames(list) == IF list # << >> THEN list ELSE DefaultSpeakerNames

\* f.endswith(".docx")
EndsWithDocx(file) == file.path.ext = ".docx"

\* Faulty variant: the rows are tagged with the whole path.
FullPath(path) == path.dir \o "/" \o path.stem \o path.ext

\* os.path.basename(docx_path)
Basename(path) == path.stem \o path.ext

\* match.group(1).strip(), group(2).strip() or "", group(4).strip() or ""
MatchedSpeaker(m) == Strip(m.group1)
MatchedTimestamp(m) == IF m.group2 # << >> THEN Strip(m.group2) ELSE << >>
StatementPart(m) == IF m.group4 # << >> THEN Strip(m.group4) ELSE << >>

\* Faulty variant: a row is added for every speaker line.
HasStatementAlways(part) == TRUE

\* "if statement_part:"
HasStatement(part) == part # << >>

\* Faulty variant: a continuation row loses the timestamp.
ContinuationRowNoTimestamp(filename, speaker, timestamp, text) ==
    << filename, speaker, << >>, text >>

\* [filename_base, current_speaker, current_timestamp, text]
ContinuationRow(filename, speaker, timestamp, text) ==
    << filename, speaker, timestamp, text >>

\* Faulty variant: the speaker of the document before stays active.
SpeakerAtOpenKept(previous) == previous

\* current_speaker = None (and current_timestamp = None) after Document(path)
SpeakerAtOpen(previous) == None

CsvHeaderRow == << "source_file", "name", "timestamp", "statement" >>

\* Faulty variant: a document that cannot be read ends the batch.
AfterFailedFileStop(idx, count) == count

\* except Exception: log; the for loop takes the next file.
AfterFailedFile(idx, count) == idx + 1

\* Faulty variant: the header is written also when there is no row.
NothingToWriteNever(data) == FALSE

\* "if not processed_transcript_data:"
NothingToWrite(data) == data = << >>

\* Faulty variant: the paragraphs are counted, not the lines.
RECURSIVE CountParagraphs(_)
CountParagraphs(files) ==
    IF files = << >> THEN 0
    ELSE (IF Head(files).readable THEN Len(Head(files).paragraphs) ELSE 0)
         + CountParagraphs(Tail(files))

\* total_lines += len(p.text.split('\n')) for every paragraph of every
\* document that docx.Document can read.
RECURSIVE CountLines(_)
CountLines(files) ==
    IF files = << >> THEN 0
    ELSE (IF Head(files).readable THEN Len(LinesOf(Head(files).paragraphs)) ELSE 0)
         + CountLines(Tail(files))

---------------------------------------------------------------------------
(* docx_to_csv: inputs.  A document is written from a script, one entry for
   each line: a label, a timestamp and a text, any of them empty, and the
   whitespace around the line. *)

MaxLines == 3

Alice == <<"A", "l", "i", "c", "e">>
AliceLower == <<"a", "l", "i", "c", "e">>
Al == <<"A", "l">>
Bob == <<"B", "o", "b">>

ScriptLine(label, timestamp, text, pad) ==
    [label |-> label, timestamp |-> timestamp, text |-> text, pad |-> pad]

ScriptLines ==
    { ScriptLine(Alice, <<"1", "0", ":", "0", "0">>, <<"h", "i">>, << >>),
      ScriptLine(Bob, << >>, << >>, << >>),
      ScriptLine(Bob, <<"1", ":", "0", "2", ":", "0", "3">>, << >>, << >>),
      ScriptLine(<< >>, << >>, <<"o", "k">>, <<" ">>),
      ScriptLine(<< >>, << >>, << >>, <<" ">>),
      ScriptLine(Al, <<"1", "0", ":", "0", "1">>, <<"x">>, << >>),
      ScriptLine(AliceLower, <<"1", "0", ":", "0", "0">>, <<"h", "i">>, << >>) }

\* The non-empty parts of a line with one space between them.
RECURSIVE JoinParts(_)
JoinParts(parts) ==
    IF parts = << >> THEN << >>
    ELSE LET rest == JoinParts(Tail(parts))
         IN  IF Head(parts) = << >> THEN rest
             ELSE IF rest = << >> THEN Head(parts)
             ELSE Head(parts) \o <<" ">> \o rest

LineContent(line) == JoinParts(<< line.label, line.timestamp, line.text >>)
LineText(line) == line.pad \o LineContent(line) \o line.pad

\* doc.add_paragraph(para) for each line, or one paragraph with soft breaks.
RECURSIVE JoinLines(_)
JoinLines(lines) ==
    IF Len(lines) = 1 THEN LineText(lines[1])
    ELSE LineText(Head(lines)) \o << Newline >> \o JoinLines(Tail(lines))

Paragraphs(lines, layout) ==
    IF lines = << >> THEN << >>
    ELSE IF layout = "soft" THEN << JoinLines(lines) >>
    ELSE [k \in 1..Len(lines) |-> LineText(lines[k])]

Scripts == UNION { [1..n -> ScriptLines] : n \in 0..MaxLines }

Path(dir, stem, ext) == [dir |-> dir, stem |-> stem, ext |-> ext]

\* A file of the batch: its path, whether docx.Document can read it, its text.
DocFile(path, readable, lines, layout) ==
    [path |-> path, readable |-> readable, paragraphs |-> Paragraphs(lines, layout),
     script |-> lines]

\* The document under study comes second: in a list after a file that cannot
\* be read, or in a folder, written with soft breaks, after a file that is no
\* document and a document that ends with a speaker active.
Batches(main) ==
    { [kind |-> "list", isdir |-> FALSE,
       files |-> << DocFile(Path("in", "bad", ".docx"), FALSE, << >>, "paragraphs"),
                    DocFile(Path("in", "a", ".docx"), TRUE, main, "paragraphs") >>],
      [kind |-> "folder", isdir |-> TRUE,
       files |-> << DocFile(Path("in", "notes", ".txt"), TRUE, << >>, "paragraphs"),
                    DocFile(Path("in", "first", ".docx"), TRUE,
                            << ScriptLine(Bob, << >>, << >>, << >>),
                               ScriptLine(<< >>, << >>, <<"o", "k">>, <<" ">>) >>,
                            "paragraphs"),
                    DocFile(Path("in", "a", ".docx"), TRUE, main, "soft") >>] }

MissingFolder == [kind |-> "folder", isdir |-> FALSE, files |-> << >>]
NoDocuments ==
    [kind |-> "list", isdir |-> FALSE,
     files |-> << DocFile(Path("in", "notes", ".txt"), TRUE, << >>, "paragraphs") >>]

InputSources == { MissingFolder, NoDocuments } \cup UNION { Batches(main) : main \in Scripts }

\* What is under output_csv_path before the call: an older result when a
\* folder is converted, nothing when a list of files is.
OldOutput == File(<< CsvHeaderRow, << "old.docx", Bob, << >>, <<"o", "l", "d">> >> >>)
OutputBefore(source) == IF source.kind = "folder" THEN OldOutput ELSE Absent

SpeakerLists == { << >>, << Alice, Bob >>, << Al, Alice >> }

\* The calls of process_docx_files: every input with the two lists of names,
\* the lists of files also without a list of names.
DocxCalls ==
    { c \in InputSources \X SpeakerLists : c[2] = << >> => c[1].kind = "list" }

\* Calls about the labels: a label that begins another, in both orders of
\* the list; a label with a full stop and a space; a label that ends with a
\* space.
MaxLabelLines == 2

DrSmith == <<"D", "r", ".", " ", "S", "m", "i", "t", "h">>
DrXSmith == <<"D", "r", "X", " ", "S", "m", "i", "t", "h">>
AliceSpace == <<"A", "l", "i", "c", "e", " ">>

LabelLines ==
    { ScriptLine(Al, <<"1", "0", ":", "0", "1">>, <<"x">>, << >>),
      ScriptLine(Alice, <<"1", "0", ":", "0", "0">>, <<"x">>, << >>),
      ScriptLine(DrSmith, <<"1", "0", ":", "0", "0">>, <<"H">>, << >>),
      ScriptLine(DrXSmith, <<"1", "0", ":", "0", "0">>, <<"H">>, << >>),
      ScriptLine(AliceSpace, <<"1", "0", ":", "0", "0">>, <<"h", "i">>, << >>),
      ScriptLine(Alice, << >>, <<"h", "i">>, << >>),
      ScriptLine(Alice, << >>, <<"1", ":", "2", "3">>, << >>),
      ScriptLine(<< >>, << >>, <<"o", "k">>, << >>),
      ScriptLine(<< >>, << >>, << >>, <<" ">>) }

LabelScripts == UNION { [1..n -> LabelLines] : n \in 0..MaxLabelLines }

LabelLists == { << Al, Alice >>, << Alice, Al >>, << DrSmith >>, << AliceSpace >> }

LabelCalls ==
    { [kind |-> "list", isdir |-> FALSE,
       files |-> << DocFile(Path("in", "bad", ".docx"), FALSE, << >>, "paragraphs"),
                    DocFile(Path("in", "a", ".docx"), TRUE, main, "paragraphs") >>]
      : main \in LabelScripts } \X LabelLists

\* Calls with a progress callback: a file that cannot be read, a document of
\* two paragraphs, and the document under study in one paragraph with soft
\* breaks.
ProgressCalls ==
    { [kind |-> "list", isdir |-> FALSE,
       files |-> << DocFile(Path("in", "bad", ".docx"), FALSE, << >>, "paragraphs"),
                    DocFile(Path("in", "first", ".docx"), TRUE,
                            << ScriptLine(Bob, << >>, << >>, << >>),
                               ScriptLine(<< >>, << >>, <<"o", "k">>, <<" ">>) >>,
                            "paragraphs"),
                    DocFile(Path("in", "a", ".docx"), TRUE, main, "soft") >>]
      : main \in Scripts } \X { << Alice, Bob >>, << Al, Alice >> }

\* Batches for the two steps in a row: a file that cannot be read and two
\* documents of the default speakers, in different folders, with the same
\* file name or with different ones.
MaxFirstLines == 2
MaxSecondLines == 1

PipelineLines ==
    { ScriptLine(DefaultSpeakerNames[1], <<"1", "0", ":", "0", "0">>, <<"q">>, << >>),
      ScriptLine(DefaultSpeakerNames[2], <<"1", "0", ":", "0", "1">>, <<"r">>, << >>),
      ScriptLine(<< >>, << >>, <<"o", "k">>, << >>),
      ScriptLine(<< >>, << >>, << >>, <<" ">>) }

PipelineScripts(longest) == UNION { [1..n -> PipelineLines] : n \in 0..longest }

PipelineBatches ==
    { [kind |-> "list", isdir |-> FALSE,
       files |-> << DocFile(Path("in", "bad", ".docx"), FALSE, << >>, "paragraphs"),
                    DocFile(Path("a", "t", ".docx"), TRUE, first, "paragraphs"),
                    DocFile(Path("b", stem, ".docx"), TRUE, second, "paragraphs") >>]
      : first \in PipelineScripts(MaxFirstLines),
        second \in PipelineScripts(MaxSecondLines),
        stem \in {"t", "u"} }

---------------------------------------------------------------------------
(* docx_validator: validate_docx_file.  What is under file_path: whether it
   exists, is a file and may be read, whether the docx module was imported,
   the document, and the lines written in the cells of its tables. *)

Candidate(exists, isfile, accessible, library, doc, cells) ==
    [exists |-> exists, isfile |-> isfile, accessible |-> accessible, library |-> library,
     doc |-> doc, cells |-> cells, cell_paragraphs |-> Paragraphs(cells, "paragraphs")]

\* _CONTROL_CHAR_PATTERN, over the characters of the documents.
ControlChars == {"\f"}
HasControlChar(line) == \E k \in 1..Len(line) : line[k] \in ControlChars

\* "stripped = line.strip(); if stripped: all_text_lines.append(stripped)"
StrippedLines(paragraphs) ==
    LET stripped == [k \in 1..Len(LinesOf(paragraphs)) |-> Strip(LinesOf(paragraphs)[k])]
    IN  SelectSeq(stripped, LAMBDA t : t # << >>)

\* The paragraphs of the body, then those of the table cells.
AllTextLines(c) == StrippedLines(c.doc.paragraphs) \o StrippedLines(c.cell_paragraphs)

Invalid(error) ==
    [state |-> "returned", is_valid |-> FALSE, errors |-> << error >>, warnings |-> << >>]

\* Faulty variant: a document without a speaker line is rejected.
CheckSpeakersBlocking(result, text_lines, speakers) ==
    IF speakers # << >>
       /\ ~\E k \in 1..Len(text_lines) : SpeakerPatternMatch(text_lines[k], speakers).matched
    THEN [result EXCEPT !.is_valid = FALSE,
                        !.errors = Append(@, "No speaker names were found in this document.")]
    ELSE result

\* Check 4: skipped without a list; a warning when no line matches.
CheckSpeakers(result, text_lines, speakers) ==
    IF speakers # << >>
       /\ ~\E k \in 1..Len(text_lines) : SpeakerPatternMatch(text_lines[k], speakers).matched
    THEN [result EXCEPT !.warnings =
                           Append(@, "No speaker names were found in this document.")]
    ELSE result

\* Check 5: a warning for each of the first lines with a control character,
\* and one more for the others.
MaxReported == 3
CheckControlChars(result, text_lines) ==
    LET lines_with_issues == SelectSeq(text_lines, HasControlChar)
        reported == IF Len(lines_with_issues) > MaxReported THEN MaxReported
                    ELSE Len(lines_with_issues)
    IN  [result EXCEPT !.warnings =
            @ \o [k \in 1..reported |-> "contains an unusual control character"]
              \o (IF Len(lines_with_issues) > MaxReported
                  THEN <<"more line(s) with unusual characters">> ELSE << >>)]

ValidateDocxFile(c, speakers) ==
    IF ~c.exists THEN Invalid("File not found or can't be read.")
    ELSE IF ~c.isfile THEN Invalid("This path is not a file.")
    ELSE IF ~c.accessible THEN Invalid("File can't be read")
    ELSE IF ~c.library THEN Invalid("python-docx library is not installed.")
    ELSE IF ~c.doc.readable THEN Invalid("This file is not a valid DOCX document.")
    ELSE IF AllTextLines(c) = << >> THEN Invalid("This document is empty")
    ELSE CheckControlChars(
            CheckSpeakers([state |-> "returned", is_valid |-> TRUE,
                           errors |-> << >>, warnings |-> << >>],
                          AllTextLines(c), speakers),
            AllTextLines(c))

\* The documents given to the validator: up to MaxCheckedLines lines in the
\* body, and nothing, a turn or a plain text in a table cell.
MaxCheckedLines == 2

CheckedLines ==
    { ScriptLine(Alice, <<"1", "0", ":", "0", "0">>, <<"h", "i">>, << >>),
      ScriptLine(Bob, << >>, << >>, << >>),
      ScriptLine(<< >>, << >>, <<"o", "k">>, <<" ">>),
      ScriptLine(<< >>, << >>, << >>, <<" ">>),
      ScriptLine(<< >>, << >>, <<"a", "\f", "b">>, << >>) }

CheckedScripts == UNION { [1..n -> CheckedLines] : n \in 0..MaxCheckedLines }

CheckedCells ==
    { << >>,
      << ScriptLine(Bob, <<"1", "0", ":", "0", "0">>, <<"h", "i">>, << >>) >>,
      << ScriptLine(<< >>, << >>, <<"o", "k">>, << >>) >>,
      << ScriptLine(<< >>, << >>, <<"a", "\f", "b">>, << >>),
         ScriptLine(<< >>, << >>, <<"c", "\f", "d">>, <<" ">>) >> }

NoDocument == DocFile(Path("in", "a", ".docx"), FALSE, << >>, "paragraphs")

\* A path without a file, a directory, a file that may not be read, a file
\* that is no document, a document when the docx module is missing, and the
\* documents.
Candidates ==
    { Candidate(FALSE, FALSE, FALSE, TRUE, NoDocument, << >>),
      Candidate(TRUE, FALSE, TRUE, TRUE, NoDocument, << >>),
      Candidate(TRUE, FALSE, FALSE, TRUE, NoDocument, << >>),
      Candidate(TRUE, TRUE, FALSE, TRUE, NoDocument, << >>),
      Candidate(TRUE, TRUE, FALSE, FALSE, NoDocument, << >>),
      Candidate(TRUE, TRUE, TRUE, TRUE, NoDocument, << >>),
      Candidate(TRUE, TRUE, TRUE, FALSE, NoDocument, << >>) }
    \cup
    { Candidate(TRUE, TRUE, TRUE, library,
                DocFile(Path("in", "a", ".docx"), TRUE, main, "paragraphs"), cells)
      : library \in BOOLEAN, main \in CheckedScripts, cells \in CheckedCells }

CheckedLists == { << >>, << Alice, Bob >>, << Al, Alice >> }

---------------------------------------------------------------------------
(* settings_manager: Python values, JSON text and the conversions between
   them.  A value is a kind, a text for the scalars and the items for the
   containers; a dict is its entries in insertion order, each a key and a
   value.  A JSON text is given by what it denotes: an object of members with
   string names, an array, a string, a number, null. *)

Value(kind, v, items) == [kind |-> kind, v |-> v, items |-> items]

PyStr(text) == Value("str", text, << >>)
PyInt(digits) == Value("int", digits, << >>)
PyNone == Value("None", "", << >>)
PyList(items) == Value("list", "", items)
PyTuple(items) == Value("tuple", "", items)
PySet(items) == Value("set", "", items)
PyEntry(key, val) == Value("entry", "", << key, val >>)
PyDict(entries) == Value("dict", "", entries)

JsonString(text) == Value("string", text, << >>)
JsonNumber(digits) == Value("number", digits, << >>)
JsonNull == Value("null", "", << >>)
JsonArrayOf(items) == Value("array", "", items)
JsonMember(name, val) == Value("member", name, << val >>)
JsonObjectOf(members) == Value("object", "", members)

\* json.dump raises TypeError for a value it has no encoding for, and for a
\* dict key that is not a str, int or None.
RECURSIVE Serializable(_)
Serializable(x) ==
    CASE x.kind \in {"str", "int", "None"} -> TRUE
      [] x.kind \in {"list", "tuple"} ->
            \A k \in 1..Len(x.items) : Serializable(x.items[k])
      [] x.kind = "dict" ->
            \A k \in 1..Len(x.items) :
               /\ x.items[k].items[1].kind \in {"str", "int", "None"}
               /\ Serializable(x.items[k].items[2])
      [] OTHER -> FALSE

\* The name json.dump writes for a dict key.
KeyText(key) == IF key.kind = "None" THEN "null" ELSE key.v

\* json.dump(value): lists and tuples are arrays, every key is a string.
RECURSIVE JsonDump(_)
JsonDump(x) ==
    CASE x.kind = "str" -> JsonString(x.v)
      [] x.kind = "int" -> JsonNumber(x.v)
      [] x.kind = "None" -> JsonNull
      [] x.kind \in {"list", "tuple"} ->
            JsonArrayOf([k \in 1..Len(x.items) |-> JsonDump(x.items[k])])
      [] x.kind = "dict" ->
            JsonObjectOf([k \in 1..Len(x.items) |->
                            JsonMember(KeyText(x.items[k].items[1]),
                                       JsonDump(x.items[k].items[2]))])

\* d[key] = val: the value of a key that is there is replaced in its place.
DictSet(entries, key, val) ==
    IF \E k \in 1..Len(entries) : entries[k].items[1] = key
    THEN [k \in 1..Len(entries) |->
             IF entries[k].items[1] = key THEN PyEntry(key, val) ELSE entries[k]]
    ELSE Append(entries, PyEntry(key, val))

\* json.load(text): arrays are lists, objects are dicts with str keys.
RECURSIVE JsonLoad(_)
RECURSIVE LoadMembers(_, _)
LoadMembers(members, n) ==
    IF n = 0 THEN << >>
    ELSE DictSet(LoadMembers(members, n - 1), PyStr(members[n].v),
                 JsonLoad(members[n].items[1]))
JsonLoad(j) ==
    CASE j.kind = "string" -> PyStr(j.v)
      [] j.kind = "number" -> PyInt(j.v)
      [] j.kind = "null" -> PyNone
      [] j.kind = "array" -> PyList([k \in 1..Len(j.items) |-> JsonLoad(j.items[k])])
      [] j.kind = "object" -> PyDict(LoadMembers(j.items, Len(j.items)))

\* A file of settings: it is there or not, and its text is a whole JSON text
\* or the beginning of one (after open(..., 'w') and a write that raised).
NoFile == [exists |-> FALSE, whole |-> FALSE, doc |-> JsonNull]
SettingsText(doc) == [exists |-> TRUE, whole |-> TRUE, doc |-> doc]
Truncated == [exists |-> TRUE, whole |-> FALSE, doc |-> JsonNull]

\* Faulty variant: the members of the older text that the new one does not
\* name are kept.
RECURSIVE KeptMembers(_, _)
KeptMembers(old, new) ==
    IF old = << >> THEN << >>
    ELSE (IF \E k \in 1..Len(new) : new[k].v = Head(old).v THEN << >> ELSE << Head(old) >>)
         \o KeptMembers(Tail(old), new)
WrittenMerged(before, doc) ==
    IF before.exists /\ before.whole /\ before.doc.kind = "object" /\ doc.kind = "object"
    THEN SettingsText(JsonObjectOf(KeptMembers(before.doc.items, doc.items) \o doc.items))
    ELSE SettingsText(doc)

\* with open(self.settings_file, 'w'): json.dump(self.settings, f, indent=4)
WrittenFile(before, doc) == SettingsText(doc)

\* "{}", and the structure of a manager created without any file.
EmptyDict == PyDict(<< >>)
EmptyStructure ==
    PyDict(<< PyEntry(PyStr("speaker_names"), PyList(<< >>)),
              PyEntry(PyStr("categories"), PyList(<< >>)),
              PyEntry(PyStr("system_instruction"), PyStr("")),
              PyEntry(PyStr("model"), PyStr("gpt-5.1")) >>)

---------------------------------------------------------------------------
(* settings_manager: inputs *)

MaxSaves == 2
MaxManagers == 2

FirstSettings ==
    PyDict(<< PyEntry(PyStr("speaker_names"), PyList(<< PyStr("First") >>)),
              PyEntry(PyStr("model"), PyStr("gpt-5.1")) >>)
SecondSettings ==
    PyDict(<< PyEntry(PyStr("speaker_names"), PyList(<< PyStr("Second") >>)),
              PyEntry(PyStr("categories"), PyList(<< PyStr("Cat2"), PyStr("Cat3") >>)) >>)
TupleSettings ==
    PyDict(<< PyEntry(PyStr("speaker_names"), PyTuple(<< PyStr("A"), PyStr("B") >>)) >>)
IntKeySettings == PyDict(<< PyEntry(PyInt("1"), PyStr("x")) >>)
SetSettings ==
    PyDict(<< PyEntry(PyStr("speaker_names"), PySet(<< PyStr("A") >>)) >>)

\* The arguments of save_settings.
SettingsArguments ==
    { FirstSettings, SecondSettings, TupleSettings, IntKeySettings, SetSettings,
      EmptyDict, PyNone }

\* The settings file and the defaults file before the first manager.
DefaultSettings ==
    PyDict(<< PyEntry(PyStr("speaker_names"),
                      PyList(<< PyStr("Interviewer"), PyStr("Respondent") >>)) >>)
SettingsFilesBefore == { NoFile, Truncated, SettingsText(JsonDump(FirstSettings)) }
DefaultFilesBefore == { NoFile, SettingsText(JsonDump(DefaultSettings)) }

---------------------------------------------------------------------------
(* State *)

VARIABLES
    fs,                    \* the dataset's directory: path -> file
    original,              \* the rows under InputPath when the run started
    api_key,               \* the api_key argument
    env_key,               \* OPENAI_API_KEY in the environment
    categories,            \* the categories argument
    pc,                    \* where process_csv_with_llm is
    i,                     \* enumerate's index: data rows taken from csv_reader
    interviewer_context,
    current_source_file,
    log,                   \* what log_callback received
    calls,                 \* the calls of classify_text_with_llm, in order
    returned,              \* what those calls returned, in order
    requests,              \* requests sent to the classification service
    raised,                \* the exception that ended the run, "" when none
    resets,                \* the data rows (1-based) at which the context was reset
    run,                   \* which call of process_csv_with_llm on the dataset this is
    direct_call,           \* a call of classify_text_with_llm from outside the rewriter
    processing,            \* gui_app: a background operation is running
    cancel_requested,      \* gui_app: the Cancel button was pressed
    btn_cancel,            \* gui_app: the Cancel button
    step2_status,          \* gui_app: the status text of the classification step
    input_source,          \* process_docx_files: the folder or the list of files
    speaker_list,          \* the speaker_list argument
    output_csv,            \* the file under output_csv_path
    docx_pc,               \* where process_docx_files is
    docx_files,
    file_idx,
    lines,                 \* the lines of the open document, as the two loops yield them
    line_idx,              \* how many of them have been taken
    current_speaker,
    current_timestamp,
    processed_transcript_data,
    docx_log,              \* what log_callback received from process_docx_files
    origin,                \* for each row of processed_transcript_data, the line it came from
    progress_callback,     \* whether a progress_callback was supplied
    total_lines,
    lines_done,
    progress,              \* the calls of progress_callback: (lines_done, total_lines)
    settings_file,         \* SettingsManager: the file under self.settings_file
    default_settings_file, \* the file under self.default_settings_file
    settings,              \* self.settings of the manager constructed last
    sm_pc,                 \* what was done last with the settings
    managers,              \* how many managers were constructed on the file
    saves,                 \* the calls of save_settings: argument, return value, manager
    step1_status,          \* gui_app: the status text of the conversion step
    btn_classify,          \* gui_app: the button of the classification step
    threads,               \* gui_app: the functions page.run_thread is running
    candidate,             \* validate_docx_file: what is under file_path
    validation             \* validate_docx_file: the ValidationResult, once returned

csvVars == << fs, original, api_key, env_key, categories, pc, i, interviewer_context,
           current_source_file, log, calls, returned, requests, raised, resets >>

\* What a run of process_csv_with_llm does not touch.
guiVars == << processing, cancel_requested, btn_cancel, step2_status >>
progressVars == << progress_callback, total_lines, lines_done, progress >>
docxVars == << input_source, speaker_list, output_csv, docx_pc, docx_files, file_idx,
              lines, line_idx, current_speaker, current_timestamp, processed_transcript_data,
              docx_log, origin, progressVars >>
settingsVars == << settings_file, default_settings_file, settings, sm_pc, managers, saves >>
windowVars == << step1_status, btn_classify, threads >>
validatorVars == << candidate, validation >>
elsewhere == << direct_call, guiVars, docxVars, settingsVars, windowVars, validatorVars >>
notCsv == << run, elsewhere >>

vars == << csvVars, notCsv >>

\* The data rows of the input file, as csv_reader yields them after the header.
NumRows == IF fs[InputPath].rows = << >> THEN 0 ELSE Len(fs[InputPath].rows) - 1
CurrentRow == fs[InputPath].rows[i + 2]
Cats == EffectiveCategories(categories)

CsvInit ==
    /\ \E d \in Datasets, missing \in BOOLEAN :
          /\ missing => d = << >>
          /\ fs = [p \in {InputPath, TempPath} |->
                     IF p = InputPath /\ ~missing THEN File(d) ELSE Absent]
          /\ original = d
    /\ \E c \in CredentialCases : api_key = c[1] /\ env_key = c[2]
    /\ categories \in CategoryChoices
    /\ pc = "start"
    /\ i = 0
    /\ interviewer_context = Placeholder
    /\ current_source_file = NoSourceFile
    /\ log = << >>
    /\ calls = << >>
    /\ returned = << >>
    /\ requests = 0
    /\ raised = ""
    /\ resets = {}

\* One call of process_csv_with_llm on a dataset.
\* No call of classify_text_with_llm but those of the rewriter.
NoDirectCall == [reply |-> "none", outcome |-> "none", result |-> << >>]

\* The window as main() builds it.
GuiInit ==
    /\ processing = FALSE
    /\ cancel_requested = FALSE
    /\ btn_cancel = [visible |-> FALSE, disabled |-> FALSE]
    /\ step2_status = "Pending"

\* The conversion step has not run: its status, the button of the next
\* step, no background function.
WindowInit ==
    /\ step1_status = "Pending"
    /\ btn_classify = [disabled |-> TRUE]
    /\ threads = << >>

\* validate_docx_file is not called.
NoCandidate ==
    Candidate(FALSE, FALSE, FALSE, TRUE,
              DocFile(Path("", "", ""), FALSE, << >>, "paragraphs"), << >>)
NotValidated == [state |-> "none", is_valid |-> TRUE, errors |-> << >>, warnings |-> << >>]
ValidatorIdle ==
    /\ candidate = NoCandidate
    /\ validation = NotValidated

\* No SettingsManager is constructed.
SettingsIdle ==
    /\ settings_file = NoFile
    /\ default_settings_file = NoFile
    /\ settings = EmptyDict
    /\ sm_pc = "idle"
    /\ managers = 0
    /\ saves = << >>

\* The locals of process_docx_files before its first statement.
DocxLocals ==
    /\ docx_files = << >>
    /\ file_idx = 0
    /\ lines = << >>
    /\ line_idx = 0
    /\ current_speaker = None
    /\ current_timestamp = None
    /\ processed_transcript_data = << >>
    /\ docx_log = << >>
    /\ origin = << >>
    /\ total_lines = 0
    /\ lines_done = 0
    /\ progress = << >>

\* process_docx_files is not called.
DocxIdle ==
    /\ input_source = [kind |-> "list", isdir |-> FALSE, files |-> << >>]
    /\ speaker_list = << >>
    /\ docx_pc = "idle"
    /\ output_csv = Absent
    /\ progress_callback = FALSE
    /\ DocxLocals

Init ==
    /\ CsvInit
    /\ run = 1
    /\ direct_call = NoDirectCall
    /\ GuiInit
    /\ WindowInit
    /\ ValidatorIdle
    /\ SettingsIdle
    /\ DocxIdle

---------------------------------------------------------------------------
(* process_csv_with_llm: the steps *)

\* except Exception as e: log, remove the temporary file, return.
ExceptHandler(exc, messages) ==
    /\ log' = log \o messages \o <<"Error processing CSV file">>
    /\ fs' = RemoveTemp(fs)
    /\ raised' = exc
    /\ pc' = "failed"

\* The existence check, then tempfile.NamedTemporaryFile(..., dir=dirname).
Start ==
    /\ pc = "start"
    /\ \/ /\ ~fs[InputPath].exists
          /\ log' = Append(log, "does not exist")
          /\ pc' = "returned"
          /\ UNCHANGED fs
       \/ /\ fs[InputPath].exists
          /\ fs' = [fs EXCEPT ![TempPath] = File(<< >>)]
          /\ pc' = "try"
          /\ UNCHANGED log
    /\ UNCHANGED << original, api_key, env_key, categories, i, interviewer_context,
                    current_source_file, calls, returned, requests, raised, resets >>

\* The temporary file cannot be created: the exception leaves the function,
\* the try block has not been entered.
TempFileFails ==
    /\ pc = "start"
    /\ fs[InputPath].exists
    /\ pc' = "raised"
    /\ raised' = "OSError"
    /\ UNCHANGED << fs, original, api_key, env_key, categories, i, interviewer_context,
                    current_source_file, log, calls, returned, requests, resets >>

\* open(input), header = next(csv_reader, None), the new header is written.
WriteHeader ==
    /\ pc = "try"
    /\ fs' = IF fs[InputPath].rows # << >> /\ fs[InputPath].rows[1] # << >>
             THEN WriteRow(fs, NewHeader(fs[InputPath].rows[1], Cats))
             ELSE fs
    /\ interviewer_context' = Placeholder
    /\ current_source_file' = NoSourceFile
    /\ pc' = "loop"
    /\ UNCHANGED << original, api_key, env_key, categories, i, log, calls, returned,
                    requests, raised, resets >>

\* A row of fewer than 4 fields is written as it is.
ShortRow ==
    /\ pc = "loop"
    /\ i < NumRows
    /\ IsShortRow(CurrentRow)
    /\ fs' = WriteRow(fs, ShortRowOutput(CurrentRow, Cats))
    /\ i' = i + 1
    /\ UNCHANGED << original, api_key, env_key, categories, pc, interviewer_context,
                    current_source_file, log, calls, returned, requests, raised, resets >>

\* A full row of an interviewer.
InterviewerRow ==
    /\ pc = "loop"
    /\ i < NumRows
    /\ ~IsShortRow(CurrentRow)
    /\ IsInterviewer(CurrentRow[2])
    /\ log' = log \o ProgressLog(i) \o ResetLog(CurrentRow[1], current_source_file)
    /\ resets' = IF SourceFileChanged(CurrentRow[1], current_source_file)
                 THEN resets \cup {i + 1} ELSE resets
    /\ current_source_file' = CurrentRow[1]
    /\ interviewer_context' =
          ContextAfterRow(ResetContext(interviewer_context, CurrentRow[1], current_source_file),
                          CurrentRow[2], CurrentRow[4])
    /\ fs' = WriteRow(fs, NewRow(CurrentRow, Cats, InterviewerScores(Cats),
                                 InterviewerRationale))
    /\ i' = i + 1
    /\ UNCHANGED << original, api_key, env_key, categories, pc, calls, returned,
                    requests, raised >>

\* A full row of another speaker: classify_text_with_llm is called with the
\* running context.  Without a credential it logs and raises ValueError, which
\* the except clause of process_csv_with_llm catches; with one, the request
\* is sent and the call blocks until the service answers.
CallClassifier ==
    /\ pc = "loop"
    /\ i < NumRows
    /\ ~IsShortRow(CurrentRow)
    /\ ~IsInterviewer(CurrentRow[2])
    /\ LET context == ResetContext(interviewer_context, CurrentRow[1], current_source_file)
           before == log \o ProgressLog(i) \o ResetLog(CurrentRow[1], current_source_file)
       IN  /\ resets' = IF SourceFileChanged(CurrentRow[1], current_source_file)
                        THEN resets \cup {i + 1} ELSE resets
           /\ current_source_file' = CurrentRow[1]
           /\ interviewer_context' = ContextAfterRow(context, CurrentRow[2], CurrentRow[4])
           /\ calls' = Append(calls, [row |-> i + 1, text |-> CurrentRow[4],
                                      context |-> context,
                                      written |-> Len(fs[WriterPath].rows)])
           /\ IF MissingCredential(api_key, env_key)
              THEN /\ ExceptHandler("ValueError",
                                    ProgressLog(i)
                                    \o ResetLog(CurrentRow[1], current_source_file)
                                    \o <<"OPENAI_API_KEY environment variable not set">>)
                   /\ UNCHANGED requests
              ELSE /\ log' = Append(before, "Prompt sent to LLM")
                   /\ requests' = requests + 1
                   /\ pc' = "waiting"
                   /\ UNCHANGED << fs, raised >>
    /\ UNCHANGED << original, api_key, env_key, categories, i, returned >>

\* The service answers (or the call fails): classify_text_with_llm returns, the
\* scores are set and the row is written.  A "subthemes" value that cannot be
\* iterated raises TypeError in process_csv_with_llm.
ClassifierReturns ==
    /\ pc = "waiting"
    /\ \E reply \in ServiceReplies :
          LET result == ClassifyResult(reply) IN
          /\ returned' = Append(returned, result)
          /\ IF "subthemes" \in result.keys /\ ~result.subthemes.iterable
             THEN /\ ExceptHandler("TypeError", ClassifyLog(reply))
                  /\ UNCHANGED i
             ELSE /\ log' = log \o ClassifyLog(reply)
                  /\ fs' = WriteRow(fs, NewRow(CurrentRow, Cats, ScoresOf(result, Cats),
                                               RationaleOf(result)))
                  /\ i' = i + 1
                  /\ pc' = "loop"
                  /\ UNCHANGED raised
    /\ UNCHANGED << original, api_key, env_key, categories, interviewer_context,
                    current_source_file, calls, requests, resets >>

\* The loop is over: temp_file.close(), os.replace, the success message.
Commit ==
    /\ pc = "loop"
    /\ i = NumRows
    /\ fs' = ReplaceFile(fs)
    /\ log' = Append(log, "Successfully processed and updated")
    /\ pc' = "done"
    /\ UNCHANGED << original, api_key, env_key, categories, i, interviewer_context,
                    current_source_file, calls, returned, requests, raised, resets >>

\* An I/O error in the try block: opening or reading the input, writing a row,
\* closing the temporary file, the replace itself.
IOFailure ==
    /\ pc \in {"try", "loop"}
    /\ ExceptHandler("OSError", << >>)
    /\ UNCHANGED << original, api_key, env_key, categories, i, interviewer_context,
                    current_source_file, calls, returned, requests, resets >>

Next ==
    \/ Start /\ UNCHANGED notCsv
    \/ TempFileFails /\ UNCHANGED notCsv
    \/ WriteHeader /\ UNCHANGED notCsv
    \/ ShortRow /\ UNCHANGED notCsv
    \/ InterviewerRow /\ UNCHANGED notCsv
    \/ CallClassifier /\ UNCHANGED notCsv
    \/ ClassifierReturns /\ UNCHANGED notCsv
    \/ Commit /\ UNCHANGED notCsv
    \/ IOFailure /\ UNCHANGED notCsv

Spec == Init /\ [][Next]_vars

\* The run is one sequential call: a step that can be taken is taken, and
\* the service answers or fails every request.
SpecFair == Spec /\ WF_vars(Next)

---------------------------------------------------------------------------
(* process_csv_with_llm called again on the dataset a first call produced *)

MaxRerunRows == 1
LastRun == 2

\* The caller calls process_csv_with_llm(input_csv_path, ...) again with the
\* same arguments: the function starts over on what is now under the path.
Rerun ==
    /\ pc = "done"
    /\ run < LastRun
    /\ run' = run + 1
    /\ original' = fs[InputPath].rows
    /\ pc' = "start"
    /\ i' = 0
    /\ resets' = {}
    /\ UNCHANGED << fs, api_key, env_key, categories, interviewer_context,
                    current_source_file, log, calls, returned, requests, raised >>
    /\ UNCHANGED elsewhere

InitTwice ==
    /\ Init
    /\ Len(original) <= MaxRerunRows + 1

NextTwice ==
    \/ Start /\ UNCHANGED notCsv
    \/ TempFileFails /\ UNCHANGED notCsv
    \/ WriteHeader /\ UNCHANGED notCsv
    \/ ShortRow /\ UNCHANGED notCsv
    \/ InterviewerRow /\ UNCHANGED notCsv
    \/ CallClassifier /\ UNCHANGED notCsv
    \/ ClassifierReturns /\ UNCHANGED notCsv
    \/ Commit /\ UNCHANGED notCsv
    \/ IOFailure /\ UNCHANGED notCsv
    \/ Rerun

SpecTwice == InitTwice /\ [][NextTwice]_vars

---------------------------------------------------------------------------
(* classify_text_with_llm called on its own, on every kind of reply *)

\* The rewriter is not running.
CsvIdle ==
    /\ fs = [p \in {InputPath, TempPath} |-> Absent]
    /\ original = << >>
    /\ categories = << >>
    /\ pc = "idle"
    /\ i = 0
    /\ interviewer_context = Placeholder
    /\ current_source_file = NoSourceFile
    /\ log = << >>
    /\ calls = << >>
    /\ returned = << >>
    /\ requests = 0
    /\ raised = ""
    /\ resets = {}
    /\ run = 1

\* What json.loads can give for a reply that is JSON.
ReplyValues ==
    { JsonArray } \cup
    { JsonObject(keys, subthemes, rationale) :
         keys \in SUBSET {"subthemes", "rationale", "extra"},
         subthemes \in { Subthemes(<< >>), Subthemes(<<"Cat1">>), NotIterable },
         rationale \in { "", "r" } }

ClassifyReplies ==
    ServiceReplies \cup
    { [transport |-> "ok", isJson |-> TRUE, value |-> v] : v \in ReplyValues }

InitClassify ==
    /\ CsvIdle
    /\ \E c \in CredentialCases : api_key = c[1] /\ env_key = c[2]
    /\ \E reply \in ClassifyReplies :
          direct_call = [reply |-> reply, outcome |-> "pending", result |-> << >>]
    /\ GuiInit
    /\ WindowInit
    /\ ValidatorIdle
    /\ SettingsIdle
    /\ DocxIdle

\* "if not openai.api_key": the message is logged and ValueError raised.
ClassifyRaises ==
    /\ direct_call.outcome = "pending"
    /\ MissingCredential(api_key, env_key)
    /\ log' = Append(log, "OPENAI_API_KEY environment variable not set")
    /\ direct_call' = [direct_call EXCEPT !.outcome = "raised"]
    /\ UNCHANGED << fs, original, api_key, env_key, categories, pc, i, interviewer_context,
                    current_source_file, calls, returned, requests, raised, resets, run >>
    /\ UNCHANGED << guiVars, docxVars, settingsVars, windowVars, validatorVars >>

\* The request is sent and the try block returns the object or the sentinel.
ClassifyReturns ==
    /\ direct_call.outcome = "pending"
    /\ ~MissingCredential(api_key, env_key)
    /\ log' = log \o <<"Prompt sent to LLM">> \o ClassifyLog(direct_call.reply)
    /\ requests' = requests + 1
    /\ direct_call' = [direct_call EXCEPT !.outcome = "returned",
                                          !.result = << ClassifyResult(direct_call.reply) >>]
    /\ UNCHANGED << fs, original, api_key, env_key, categories, pc, i, interviewer_context,
                    current_source_file, calls, returned, raised, resets, run >>
    /\ UNCHANGED << guiVars, docxVars, settingsVars, windowVars, validatorVars >>

NextClassify ==
    \/ ClassifyRaises
    \/ ClassifyReturns

SpecClassify == InitClassify /\ [][NextClassify]_vars

---------------------------------------------------------------------------
(* gui_app: the classification step *)

\* Faulty variant: the flag is not looked at.
BusyNever(flag) == FALSE

\* "if processing: return" at the head of the two handlers that start a
\* background function.
Busy(flag) == flag

\* The thread of a background function has ended.
Without(running, function) ==
    LET k == CHOOSE n \in 1..Len(running) :
                /\ running[n] = function
                /\ \A m \in 1..(n - 1) : running[m] # function
    IN  SubSeq(running, 1, k - 1) \o SubSeq(running, k + 1, Len(running))

\* The window after a conversion that completed: the next step is enabled.
InitGui ==
    /\ CsvInit
    /\ run = 1
    /\ direct_call = NoDirectCall
    /\ GuiInit
    /\ step1_status = "Complete"
    /\ btn_classify = [disabled |-> FALSE]
    /\ threads = << >>
    /\ ValidatorIdle
    /\ SettingsIdle
    /\ DocxIdle

\* classify_with_ai: the three early returns, then the background thread is
\* started with the key of the field.  One classification of the dataset is
\* followed.
ClassifyWithAi ==
    /\ ~btn_classify.disabled
    /\ ~Busy(processing)
    /\ api_key # NoKey
    /\ fs[InputPath].exists
    /\ pc = "start"
    /\ cancel_requested' = FALSE
    /\ processing' = TRUE
    /\ btn_classify' = [btn_classify EXCEPT !.disabled = TRUE]
    /\ btn_cancel' = [btn_cancel EXCEPT !.visible = TRUE]
    /\ step2_status' = "Classifying"
    /\ threads' = Append(threads, "run_classification")
    /\ UNCHANGED << csvVars, run, direct_call, docxVars,
                    settingsVars, step1_status, validatorVars >>

\* cancel_processing
CancelProcessing ==
    /\ btn_cancel.visible
    /\ ~btn_cancel.disabled
    /\ cancel_requested' = TRUE
    /\ btn_cancel' = [btn_cancel EXCEPT !.disabled = TRUE]
    /\ UNCHANGED << csvVars, run, direct_call, processing, step2_status, docxVars,
                    settingsVars, windowVars, validatorVars >>

\* Faulty variant: the flag is looked at while process_csv_with_llm runs.
CsvReturnedEarly == TRUE

\* process_csv_with_llm has run in the thread.
CsvReturned == pc \in {"done", "failed", "returned"}

\* run_classification after the call of process_csv_with_llm: the status for
\* a call that returned, the except clause for one that raised, then finally.
RunClassificationEnds ==
    /\ \E k \in 1..Len(threads) : threads[k] = "run_classification"
    /\ \/ CsvReturned
       \/ pc = "raised"
    /\ step2_status' = IF pc = "raised" THEN "Failed"
                       ELSE IF cancel_requested THEN "Cancelled"
                       ELSE "Complete"
    /\ processing' = FALSE
    /\ btn_classify' = [btn_classify EXCEPT !.disabled = FALSE]
    /\ btn_cancel' = [btn_cancel EXCEPT !.visible = FALSE]
    /\ threads' = Without(threads, "run_classification")
    /\ UNCHANGED << csvVars, run, direct_call, cancel_requested, docxVars,
                    settingsVars, step1_status, validatorVars >>

NextGui ==
    \/ ClassifyWithAi
    \/ CancelProcessing
    \/ RunClassificationEnds
    \/ processing /\ Start /\ UNCHANGED notCsv
    \/ processing /\ TempFileFails /\ UNCHANGED notCsv
    \/ processing /\ WriteHeader /\ UNCHANGED notCsv
    \/ processing /\ ShortRow /\ UNCHANGED notCsv
    \/ processing /\ InterviewerRow /\ UNCHANGED notCsv
    \/ processing /\ CallClassifier /\ UNCHANGED notCsv
    \/ processing /\ ClassifierReturns /\ UNCHANGED notCsv
    \/ processing /\ Commit /\ UNCHANGED notCsv
    \/ processing /\ IOFailure /\ UNCHANGED notCsv

SpecGui == InitGui /\ [][NextGui]_vars

---------------------------------------------------------------------------
(* docx_to_csv: process_docx_files, a step for each line *)

notDocx == << csvVars, run, direct_call, guiVars, settingsVars, windowVars, validatorVars >>

InitDocx ==
    /\ CsvIdle
    /\ api_key = NoKey
    /\ env_key = NoKey
    /\ direct_call = NoDirectCall
    /\ GuiInit
    /\ WindowInit
    /\ ValidatorIdle
    /\ SettingsIdle
    /\ \E c \in DocxCalls : input_source = c[1] /\ speaker_list = c[2]
    /\ output_csv = OutputBefore(input_source)
    /\ progress_callback = FALSE
    /\ docx_pc = "start"
    /\ DocxLocals

\* The calls about the labels.
InitLabels ==
    /\ CsvIdle
    /\ api_key = NoKey
    /\ env_key = NoKey
    /\ direct_call = NoDirectCall
    /\ GuiInit
    /\ WindowInit
    /\ ValidatorIdle
    /\ SettingsIdle
    /\ \E c \in LabelCalls : input_source = c[1] /\ speaker_list = c[2]
    /\ output_csv = OutputBefore(input_source)
    /\ progress_callback = FALSE
    /\ docx_pc = "start"
    /\ DocxLocals

\* The calls with a progress callback.
InitProgress ==
    /\ CsvIdle
    /\ api_key = NoKey
    /\ env_key = NoKey
    /\ direct_call = NoDirectCall
    /\ GuiInit
    /\ WindowInit
    /\ ValidatorIdle
    /\ SettingsIdle
    /\ \E c \in ProgressCalls : input_source = c[1] /\ speaker_list = c[2]
    /\ output_csv = OutputBefore(input_source)
    /\ progress_callback = TRUE
    /\ docx_pc = "start"
    /\ DocxLocals

CurrentFile == docx_files[file_idx + 1]

\* lines_done += 1; progress_callback(lines_done, total_lines) when there is
\* a callback and something to count.
ReportProgress ==
    /\ lines_done' = lines_done + 1
    /\ progress' = IF progress_callback /\ total_lines > 0
                   THEN Append(progress, << lines_done + 1, total_lines >>)
                   ELSE progress
    /\ UNCHANGED << progress_callback, total_lines >>

\* text = line.strip()
CurrentText == Strip(lines[line_idx + 1])
CurrentMatch == SpeakerPatternMatch(CurrentText, SpeakerNames(speaker_list))

\* The folder is listed or the list filtered; without a document the
\* function logs and returns.
DocxStart ==
    /\ docx_pc = "start"
    /\ IF input_source.kind = "folder" /\ ~input_source.isdir
       THEN /\ docx_log' = Append(docx_log, "does not exist or is not a directory")
            /\ docx_pc' = "returned"
            /\ UNCHANGED << docx_files, total_lines >>
       ELSE LET found == SelectSeq(input_source.files, EndsWithDocx)
            IN  /\ docx_files' = found
                /\ total_lines' = IF progress_callback /\ found # << >>
                                  THEN CountLines(found) ELSE 0
                /\ IF found = << >>
                   THEN /\ docx_log' = Append(docx_log, "No .docx files found")
                        /\ docx_pc' = "returned"
                   ELSE /\ docx_pc' = "file"
                        /\ UNCHANGED docx_log
    /\ UNCHANGED << input_source, speaker_list, lines, output_csv, file_idx, line_idx,
                    current_speaker, current_timestamp, processed_transcript_data, origin >>
    /\ UNCHANGED << progress_callback, lines_done, progress >>
    /\ UNCHANGED notDocx

\* docx.Document(docx_path) succeeds: the segmentation state is reset.
OpenDocument ==
    /\ docx_pc = "file"
    /\ file_idx < Len(docx_files)
    /\ CurrentFile.readable
    /\ docx_log' = Append(docx_log, "Processing")
    /\ current_speaker' = SpeakerAtOpen(current_speaker)
    /\ current_timestamp' = None
    /\ lines' = LinesOf(CurrentFile.paragraphs)
    /\ line_idx' = 0
    /\ docx_pc' = "lines"
    /\ UNCHANGED << input_source, speaker_list, output_csv, docx_files, file_idx,
                    processed_transcript_data, origin >>
    /\ UNCHANGED progressVars
    /\ UNCHANGED notDocx

\* docx.Document(docx_path) raises: the error is logged, the loop goes on.
OpenFails ==
    /\ docx_pc = "file"
    /\ file_idx < Len(docx_files)
    /\ ~CurrentFile.readable
    /\ docx_log' = docx_log \o <<"Processing", "Error opening or reading .docx file">>
    /\ file_idx' = AfterFailedFile(file_idx, Len(docx_files))
    /\ UNCHANGED << input_source, speaker_list, lines, output_csv, docx_pc, docx_files, line_idx,
                    current_speaker, current_timestamp, processed_transcript_data, origin >>
    /\ UNCHANGED progressVars
    /\ UNCHANGED notDocx

\* "if not text: continue"
BlankLine ==
    /\ docx_pc = "lines"
    /\ line_idx < Len(lines)
    /\ CurrentText = << >>
    /\ line_idx' = line_idx + 1
    /\ UNCHANGED << input_source, speaker_list, lines, output_csv, docx_pc, docx_files, file_idx,
                    current_speaker, current_timestamp, processed_transcript_data,
                    docx_log, origin >>
    /\ ReportProgress
    /\ UNCHANGED notDocx

\* "if match:" a new speaker line; a row is added when it has a statement.
SpeakerLine ==
    /\ docx_pc = "lines"
    /\ line_idx < Len(lines)
    /\ CurrentText # << >>
    /\ CurrentMatch.matched
    /\ current_speaker' = MatchedSpeaker(CurrentMatch)
    /\ current_timestamp' = MatchedTimestamp(CurrentMatch)
    /\ IF HasStatement(StatementPart(CurrentMatch))
       THEN /\ processed_transcript_data' =
                  Append(processed_transcript_data,
                         << Basename(CurrentFile.path), MatchedSpeaker(CurrentMatch),
                            MatchedTimestamp(CurrentMatch), StatementPart(CurrentMatch) >>)
            /\ origin' = Append(origin, [file |-> file_idx + 1, line |-> line_idx + 1])
       ELSE UNCHANGED << processed_transcript_data, origin >>
    /\ line_idx' = line_idx + 1
    /\ UNCHANGED << input_source, speaker_list, lines, output_csv, docx_pc, docx_files, file_idx,
                    docx_log >>
    /\ ReportProgress
    /\ UNCHANGED notDocx

\* "else: if current_speaker is not None:" a continuation row.
ContinuationLine ==
    /\ docx_pc = "lines"
    /\ line_idx < Len(lines)
    /\ CurrentText # << >>
    /\ ~CurrentMatch.matched
    /\ current_speaker # None
    /\ processed_transcript_data' =
          Append(processed_transcript_data,
                 ContinuationRow(Basename(CurrentFile.path), current_speaker,
                                 current_timestamp, CurrentText))
    /\ origin' = Append(origin, [file |-> file_idx + 1, line |-> line_idx + 1])
    /\ line_idx' = line_idx + 1
    /\ UNCHANGED << input_source, speaker_list, lines, output_csv, docx_pc, docx_files, file_idx,
                    current_speaker, current_timestamp, docx_log >>
    /\ ReportProgress
    /\ UNCHANGED notDocx

\* A line before any speaker of the document is ignored.
UnattributedLine ==
    /\ docx_pc = "lines"
    /\ line_idx < Len(lines)
    /\ CurrentText # << >>
    /\ ~CurrentMatch.matched
    /\ current_speaker = None
    /\ line_idx' = line_idx + 1
    /\ UNCHANGED << input_source, speaker_list, lines, output_csv, docx_pc, docx_files, file_idx,
                    current_speaker, current_timestamp, processed_transcript_data,
                    docx_log, origin >>
    /\ ReportProgress
    /\ UNCHANGED notDocx

\* The paragraphs of the document are exhausted.
EndDocument ==
    /\ docx_pc = "lines"
    /\ line_idx = Len(lines)
    /\ file_idx' = file_idx + 1
    /\ docx_pc' = "file"
    /\ UNCHANGED << input_source, speaker_list, lines, output_csv, docx_files, line_idx,
                    current_speaker, current_timestamp, processed_transcript_data,
                    docx_log, origin >>
    /\ UNCHANGED progressVars
    /\ UNCHANGED notDocx

\* "if not processed_transcript_data:" the three messages, no file is written.
NoStatements ==
    /\ docx_pc = "file"
    /\ file_idx = Len(docx_files)
    /\ NothingToWrite(processed_transcript_data)
    /\ docx_log' = Append(docx_log, "No statements were found")
    /\ docx_pc' = "returned"
    /\ UNCHANGED << input_source, speaker_list, lines, output_csv, docx_files, file_idx, line_idx,
                    current_speaker, current_timestamp, processed_transcript_data, origin >>
    /\ UNCHANGED progressVars
    /\ UNCHANGED notDocx

\* The header and the rows are written.
WriteCsv ==
    /\ docx_pc = "file"
    /\ file_idx = Len(docx_files)
    /\ ~NothingToWrite(processed_transcript_data)
    /\ output_csv' = File(<< CsvHeaderRow >> \o processed_transcript_data)
    /\ docx_log' = Append(docx_log, "Successfully combined text")
    /\ docx_pc' = "done"
    /\ UNCHANGED << input_source, speaker_list, lines, docx_files, file_idx, line_idx,
                    current_speaker, current_timestamp, processed_transcript_data, origin >>
    /\ UNCHANGED progressVars
    /\ UNCHANGED notDocx

\* The write raises and the error is logged: open(output_csv_path, 'w')
\* fails and the path is as it was, or the file was opened, which empties
\* it, and a later write fails.
WriteCsvFails ==
    /\ docx_pc = "file"
    /\ file_idx = Len(docx_files)
    /\ ~NothingToWrite(processed_transcript_data)
    /\ \/ UNCHANGED output_csv
       \/ \E n \in 0..Len(processed_transcript_data) :
             output_csv' = File(SubSeq(<< CsvHeaderRow >> \o processed_transcript_data, 1, n))
    /\ docx_log' = Append(docx_log, "Error writing to .csv file")
    /\ docx_pc' = "failed"
    /\ UNCHANGED << input_source, speaker_list, lines, docx_files, file_idx, line_idx,
                    current_speaker, current_timestamp, processed_transcript_data, origin >>
    /\ UNCHANGED progressVars
    /\ UNCHANGED notDocx

NextDocx ==
    \/ DocxStart
    \/ OpenDocument
    \/ OpenFails
    \/ BlankLine
    \/ SpeakerLine
    \/ ContinuationLine
    \/ UnattributedLine
    \/ EndDocument
    \/ NoStatements
    \/ WriteCsv
    \/ WriteCsvFails

SpecDocx == InitDocx /\ [][NextDocx]_vars

SpecLabels == InitLabels /\ [][NextDocx]_vars

SpecProgress == InitProgress /\ [][NextDocx]_vars

\* progress_callback(lines_done, total_lines) raises: the call is inside the
\* try of the document, so the error is logged and the loop goes on with the
\* next document; processed_transcript_data is not touched by the handler.
CallbackRaises ==
    /\ docx_pc = "lines"
    /\ line_idx < Len(lines)
    /\ progress_callback
    /\ total_lines > 0
    /\ lines_done' = lines_done + 1
    /\ progress' = Append(progress, << lines_done + 1, total_lines >>)
    /\ docx_log' = Append(docx_log, "Error opening or reading .docx file")
    /\ file_idx' = AfterFailedFile(file_idx, Len(docx_files))
    /\ docx_pc' = "file"
    /\ UNCHANGED << input_source, speaker_list, lines, output_csv, docx_files, line_idx,
                    current_speaker, current_timestamp, processed_transcript_data, origin >>
    /\ UNCHANGED << progress_callback, total_lines >>
    /\ UNCHANGED notDocx

NextCallback ==
    \/ NextDocx
    \/ CallbackRaises

\* The calls with a progress callback that may raise.
SpecCallback == InitProgress /\ [][NextCallback]_vars

---------------------------------------------------------------------------
(* The two steps in a row: process_docx_files writes the CSV and
   process_csv_with_llm is run on it. *)

\* The text csv.writer writes for a field, which csv.reader gives back.
RECURSIVE FieldText(_)
FieldText(chars) == IF chars = << >> THEN "" ELSE Head(chars) \o FieldText(Tail(chars))

\* The rows csv.reader yields for the file process_docx_files wrote.
ReadBack(rows) ==
    [k \in 1..Len(rows) |->
        IF k = 1 THEN Header
        ELSE << rows[k][1], << FieldText(rows[k][2]) >>, FieldText(rows[k][3]),
                FieldText(rows[k][4]) >>]

InitPipeline ==
    /\ CsvIdle
    /\ api_key = "sk-arg"
    /\ env_key = NoKey
    /\ direct_call = NoDirectCall
    /\ GuiInit
    /\ WindowInit
    /\ ValidatorIdle
    /\ SettingsIdle
    /\ input_source \in PipelineBatches
    /\ speaker_list = << >>
    /\ output_csv = Absent
    /\ progress_callback = FALSE
    /\ docx_pc = "start"
    /\ DocxLocals

\* Step 2 is started on the file step 1 wrote.
HandOver ==
    /\ docx_pc = "done"
    /\ pc = "idle"
    /\ fs' = [fs EXCEPT ![InputPath] = File(ReadBack(output_csv.rows))]
    /\ original' = ReadBack(output_csv.rows)
    /\ pc' = "start"
    /\ UNCHANGED << api_key, env_key, categories, i, interviewer_context,
                    current_source_file, log, calls, returned, requests, raised, resets >>
    /\ UNCHANGED notCsv

NextPipeline ==
    \/ DocxStart
    \/ OpenDocument
    \/ OpenFails
    \/ BlankLine
    \/ SpeakerLine
    \/ ContinuationLine
    \/ UnattributedLine
    \/ EndDocument
    \/ NoStatements
    \/ WriteCsv
    \/ WriteCsvFails
    \/ HandOver
    \/ Start /\ UNCHANGED notCsv
    \/ TempFileFails /\ UNCHANGED notCsv
    \/ WriteHeader /\ UNCHANGED notCsv
    \/ InterviewerRow /\ UNCHANGED notCsv
    \/ CallClassifier /\ UNCHANGED notCsv
    \/ ClassifierReturns /\ UNCHANGED notCsv
    \/ Commit /\ UNCHANGED notCsv
    \/ IOFailure /\ UNCHANGED notCsv

SpecPipeline == InitPipeline /\ [][NextPipeline]_vars

---------------------------------------------------------------------------
(* docx_validator and docx_to_csv on the same file with the same names *)

\* Without the docx module docx_to_csv cannot be imported.
InitValidate ==
    /\ CsvIdle
    /\ api_key = NoKey
    /\ env_key = NoKey
    /\ direct_call = NoDirectCall
    /\ GuiInit
    /\ WindowInit
    /\ SettingsIdle
    /\ candidate \in Candidates
    /\ validation = NotValidated
    /\ speaker_list \in CheckedLists
    /\ input_source = [kind |-> "list", isdir |-> FALSE, files |-> << candidate.doc >>]
    /\ output_csv = Absent
    /\ progress_callback = FALSE
    /\ docx_pc = IF candidate.library THEN "start" ELSE "idle"
    /\ DocxLocals

\* validate_docx_file(file_path, speaker_list) is called and returns.
ValidateFile ==
    /\ validation.state = "none"
    /\ validation' = ValidateDocxFile(candidate, speaker_list)
    /\ UNCHANGED << csvVars, run, direct_call, guiVars, docxVars, settingsVars, windowVars,
                    candidate >>

NextValidate ==
    \/ ValidateFile
    \/ NextDocx

SpecValidate == InitValidate /\ [][NextValidate]_vars

---------------------------------------------------------------------------
(* gui_app: the window with its two steps.  The files are selected; each
   conversion writes under a path of its own, which is the path the
   classification step is then given. *)

\* The selections: a file that cannot be read and a document of the default
\* speakers, or a document without any speaker.
WindowSelections ==
    { [kind |-> "list", isdir |-> FALSE,
       files |-> << DocFile(Path("in", "bad", ".docx"), FALSE, << >>, "paragraphs"),
                    DocFile(Path("in", "t", ".docx"), TRUE,
                            << ScriptLine(DefaultSpeakerNames[1], <<"1", "0", ":", "0", "0">>,
                                          <<"q">>, << >>),
                               ScriptLine(DefaultSpeakerNames[2], <<"1", "0", ":", "0", "1">>,
                                          <<"r">>, << >>),
                               ScriptLine(<< >>, << >>, << >>, <<" ">>),
                               ScriptLine(<< >>, << >>, <<"o", "k">>, << >>) >>,
                            "paragraphs") >>],
      [kind |-> "list", isdir |-> FALSE,
       files |-> << DocFile(Path("in", "u", ".docx"), TRUE,
                            << ScriptLine(<< >>, << >>, <<"o", "k">>, << >>) >>,
                            "paragraphs") >>] }

InitWindow ==
    /\ CsvIdle
    /\ api_key = "sk-arg"
    /\ env_key = NoKey
    /\ direct_call = NoDirectCall
    /\ GuiInit
    /\ WindowInit
    /\ ValidatorIdle
    /\ SettingsIdle
    /\ input_source \in WindowSelections
    /\ speaker_list = << >>
    /\ output_csv = Absent
    /\ progress_callback = TRUE
    /\ docx_pc = "idle"
    /\ DocxLocals

\* convert_to_csv: the two early returns, then run_conversion is started in
\* a thread; it names a new output file and calls process_docx_files.
ConvertToCsv ==
    /\ ~Busy(processing)
    /\ input_source.files # << >>
    /\ cancel_requested' = FALSE
    /\ processing' = TRUE
    /\ btn_cancel' = [btn_cancel EXCEPT !.visible = TRUE]
    /\ step1_status' = "Converting"
    /\ threads' = Append(threads, "run_conversion")
    /\ output_csv' = Absent
    /\ docx_pc' = "start"
    /\ docx_files' = << >>
    /\ file_idx' = 0
    /\ lines' = << >>
    /\ line_idx' = 0
    /\ current_speaker' = None
    /\ current_timestamp' = None
    /\ processed_transcript_data' = << >>
    /\ docx_log' = << >>
    /\ origin' = << >>
    /\ total_lines' = 0
    /\ lines_done' = 0
    /\ progress' = << >>
    /\ fs' = [p \in {InputPath, TempPath} |-> Absent]
    /\ original' = << >>
    /\ pc' = "idle"
    /\ i' = 0
    /\ interviewer_context' = Placeholder
    /\ current_source_file' = NoSourceFile
    /\ log' = << >>
    /\ calls' = << >>
    /\ returned' = << >>
    /\ requests' = 0
    /\ raised' = ""
    /\ resets' = {}
    /\ UNCHANGED << api_key, env_key, categories, run, direct_call, step2_status,
                    btn_classify, input_source, speaker_list, progress_callback,
                    settingsVars, validatorVars >>

\* Faulty variant: the flag is looked at while process_docx_files runs.
ConversionReturnedEarly == TRUE

\* process_docx_files has run in the thread.
ConversionReturned == docx_pc \in {"returned", "done", "failed"}

\* run_conversion after the call of process_docx_files: the status, the
\* next step enabled when the file is there, then finally.
RunConversionEnds ==
    /\ \E k \in 1..Len(threads) : threads[k] = "run_conversion"
    /\ ConversionReturned
    /\ step1_status' = IF cancel_requested THEN "Cancelled"
                       ELSE IF ~output_csv.exists THEN "No matches"
                       ELSE "Complete"
    /\ btn_classify' = IF ~cancel_requested /\ output_csv.exists
                       THEN [btn_classify EXCEPT !.disabled = FALSE]
                       ELSE btn_classify
    /\ processing' = FALSE
    /\ btn_cancel' = [btn_cancel EXCEPT !.visible = FALSE]
    /\ threads' = Without(threads, "run_conversion")
    /\ UNCHANGED << csvVars, run, direct_call, cancel_requested, step2_status, docxVars,
                    settingsVars, validatorVars >>

\* run_classification is running.
Classifying == \E k \in 1..Len(threads) : threads[k] = "run_classification"

NextWindow ==
    \/ ConvertToCsv
    \/ RunConversionEnds
    \/ ClassifyWithAi
    \/ CancelProcessing
    \/ RunClassificationEnds
    \/ DocxStart
    \/ OpenDocument
    \/ OpenFails
    \/ BlankLine
    \/ SpeakerLine
    \/ ContinuationLine
    \/ UnattributedLine
    \/ EndDocument
    \/ NoStatements
    \/ WriteCsv
    \/ WriteCsvFails
    \/ HandOver
    \/ Classifying /\ Start /\ UNCHANGED notCsv
    \/ Classifying /\ TempFileFails /\ UNCHANGED notCsv
    \/ Classifying /\ WriteHeader /\ UNCHANGED notCsv
    \/ Classifying /\ InterviewerRow /\ UNCHANGED notCsv
    \/ Classifying /\ CallClassifier /\ UNCHANGED notCsv
    \/ Classifying /\ ClassifierReturns /\ UNCHANGED notCsv
    \/ Classifying /\ Commit /\ UNCHANGED notCsv
    \/ Classifying /\ IOFailure /\ UNCHANGED notCsv

SpecWindow == InitWindow /\ [][NextWindow]_vars

---------------------------------------------------------------------------
(* settings_manager: SettingsManager *)

notSettings == << csvVars, run, direct_call, guiVars, docxVars, windowVars, validatorVars >>

InitSettings ==
    /\ CsvIdle
    /\ api_key = NoKey
    /\ env_key = NoKey
    /\ direct_call = NoDirectCall
    /\ GuiInit
    /\ WindowInit
    /\ ValidatorIdle
    /\ DocxIdle
    /\ settings_file \in SettingsFilesBefore
    /\ default_settings_file \in DefaultFilesBefore
    /\ settings = EmptyDict
    /\ sm_pc = "start"
    /\ managers = 0
    /\ saves = << >>

\* What json.load gives for the file, or the {} of the except clause.
Loaded(file) == IF file.exists /\ file.whole THEN JsonLoad(file.doc) ELSE EmptyDict
LoadOutcome(file) == IF file.exists /\ file.whole THEN "loaded" ELSE "load failed"

\* SettingsManager(settings_file, default_settings_file): __init__ and
\* _load_or_create_settings.  The copy of the defaults, the first save and
\* the read can each fail.
NewSettingsManager ==
    /\ sm_pc # "idle"
    /\ managers < MaxManagers
    /\ managers' = managers + 1
    /\ \/ /\ ~settings_file.exists
          /\ default_settings_file.exists
          /\ \E copied, readable \in BOOLEAN :
                /\ settings_file' = IF copied THEN default_settings_file ELSE settings_file
                /\ settings' = IF readable THEN Loaded(settings_file') ELSE EmptyDict
                /\ sm_pc' = IF readable THEN LoadOutcome(settings_file') ELSE "load failed"
       \/ /\ ~settings_file.exists
          /\ ~default_settings_file.exists
          /\ settings' = EmptyStructure
          /\ settings_file' \in { settings_file, Truncated,
                                  WrittenFile(settings_file, JsonDump(EmptyStructure)) }
          /\ sm_pc' = "created"
       \/ /\ settings_file.exists
          /\ \E readable \in BOOLEAN :
                /\ settings' = IF readable THEN Loaded(settings_file) ELSE EmptyDict
                /\ sm_pc' = IF readable THEN LoadOutcome(settings_file) ELSE "load failed"
          /\ UNCHANGED settings_file
    /\ UNCHANGED << default_settings_file, saves >>
    /\ UNCHANGED notSettings

\* save_settings(new_settings): the argument becomes self.settings unless it
\* is None; the file is opened for writing, which empties it, and the text
\* is written.  False is returned when opening or writing raised.
SaveSettings ==
    /\ managers >= 1
    /\ Len(saves) < MaxSaves
    /\ \E new_settings \in SettingsArguments :
          LET current == IF new_settings # PyNone THEN new_settings ELSE settings IN
          /\ settings' = current
          /\ \/ /\ UNCHANGED settings_file
                /\ saves' = Append(saves, [value |-> new_settings, result |-> FALSE,
                                        manager |-> managers])
             \/ /\ settings_file' = Truncated
                /\ saves' = Append(saves, [value |-> new_settings, result |-> FALSE,
                                        manager |-> managers])
             \/ /\ Serializable(current)
                /\ settings_file' = WrittenFile(settings_file, JsonDump(current))
                /\ saves' = Append(saves, [value |-> new_settings, result |-> TRUE,
                                        manager |-> managers])
    /\ sm_pc' = "saved"
    /\ UNCHANGED << default_settings_file, managers >>
    /\ UNCHANGED notSettings

NextSettings ==
    \/ NewSettingsManager
    \/ SaveSettings

SpecSettings == InitSettings /\ [][NextSettings]_vars

---------------------------------------------------------------------------
(* Properties: what they speak of *)

\* The data rows of the dataset as it was when the run started.
NRows == IF original = << >> THEN 0 ELSE Len(original) - 1
DataRow(n) == original[n + 1]

\* A row of at least 4 fields, and one whose speaker holds "Interviewer".
FullAt(n) == Len(DataRow(n)) >= 4
InterviewerAt(n) ==
    FullAt(n) /\ \E k \in DOMAIN DataRow(n)[2] : DataRow(n)[2][k] = "Interviewer"
RespondentAt(n) == FullAt(n) /\ ~InterviewerAt(n)

\* The rows whose processing has begun.
Visited == IF pc = "waiting" \/ raised \in {"ValueError", "TypeError"} THEN i + 1 ELSE i

\* The output as far as it is written: the temporary file, the dataset after
\* the replace.
Running == pc \in {"loop", "waiting"}
OutRows == IF pc = "done" THEN fs[InputPath].rows ELSE fs[TempPath].rows
OutRow(n) == OutRows[n + 1]
HasOutput == Running \/ pc = "done"

Largest(S) == CHOOSE x \in S : \A y \in S : y <= x

NoCredential == api_key = NoKey /\ env_key = NoKey

\* The categories of the run, as the claims state them.
RunCategories == IF categories = << >> THEN <<"Uncategorized">> ELSE categories

---------------------------------------------------------------------------
(* C1: under the dataset path there is, in every state of a run, either the
   original content or the complete rewritten dataset (the new header, one
   output row for every input row); never a part of it. *)

IsOutputOf(out, row) ==
    IF Len(row) < 4
    THEN out = row
    ELSE /\ Len(out) = Len(row) + Len(RunCategories) + 1
         /\ SubSeq(out, 1, Len(row)) = row
         /\ \A k \in 1..Len(RunCategories) : out[Len(row) + k] \in {"0", "1"}

CompleteRewrite(content) ==
    /\ Len(content) = Len(original)
    /\ original # << >> =>
          content[1] = original[1] \o RunCategories \o <<"Rationale">>
    /\ \A n \in 1..NRows : IsOutputOf(content[n + 1], DataRow(n))

C1_OriginalOrCompleteRewrite ==
    pc # "start" /\ pc # "returned" =>
       /\ fs[InputPath].exists
       /\ \/ fs[InputPath].rows = original
          \/ pc = "done" /\ CompleteRewrite(fs[InputPath].rows)

\* A run in the middle of its rows: part of the output is in the temporary
\* file, and the dataset is the original.
C1_Witness ==
    /\ pc = "waiting"
    /\ i = 1
    /\ NRows >= 2
    /\ Len(fs[TempPath].rows) = 2
    /\ fs[InputPath].rows = original

(* C2: a run that an exception ends, after the temporary file was created,
   leaves the original dataset and no temporary file. *)
C2_FailureKeepsOriginalRemovesTemp ==
    pc = "failed" =>
       /\ fs[InputPath] = File(original)
       /\ ~fs[TempPath].exists

\* A write fails after rows were written to the temporary file.
C2_Witness ==
    /\ pc = "failed"
    /\ raised = "OSError"
    /\ i >= 1
    /\ ~fs[TempPath].exists

---------------------------------------------------------------------------
(* C3 as stated: the context of the call for row N is the statement of the
   nearest interviewer row before N that has N's source_file, the placeholder
   when there is none; for every ordering of the rows. *)

SameFileInterviewersBefore(n) ==
    { k \in 1..(n - 1) : InterviewerAt(k) /\ DataRow(k)[1] = DataRow(n)[1] }

NearestSameFileContext(n) ==
    IF SameFileInterviewersBefore(n) = {} THEN Placeholder
    ELSE DataRow(Largest(SameFileInterviewersBefore(n)))[4]

C3_NearestInterviewerOfSameFile ==
    \A c \in 1..Len(calls) : calls[c].context = NearestSameFileContext(calls[c].row)

(* C3 amended: the context of the call for row N is the statement of the
   nearest interviewer row before N with no change of source_file between it
   and N (all full rows from it to N have N's source_file), the placeholder
   when there is none. *)

BlockInterviewersBefore(n) ==
    { k \in 1..(n - 1) :
        /\ InterviewerAt(k)
        /\ \A j \in k..n : FullAt(j) => DataRow(j)[1] = DataRow(n)[1] }

BlockContext(n) ==
    IF BlockInterviewersBefore(n) = {} THEN Placeholder
    ELSE DataRow(Largest(BlockInterviewersBefore(n)))[4]

C3_NearestInterviewerSinceFileChange ==
    \A c \in 1..Len(calls) : calls[c].context = BlockContext(calls[c].row)

\* Alternating source files: the row has an interviewer row of its own file
\* before it, another file's row in between, and is given the placeholder.
C3_Witness ==
    \E c \in 1..Len(calls) :
        /\ SameFileInterviewersBefore(calls[c].row) # {}
        /\ BlockInterviewersBefore(calls[c].row) = {}
        /\ calls[c].context = Placeholder

---------------------------------------------------------------------------
(* C4: the context is reset on a full row exactly when the row's source_file
   differs from that of the full row processed before it, or no full row was;
   the first respondent row of a second document is classified with the
   placeholder. *)

FullBefore(n) == { j \in 1..(n - 1) : FullAt(j) }

FileBoundaryAt(n) ==
    /\ FullAt(n)
    /\ \/ FullBefore(n) = {}
       \/ DataRow(Largest(FullBefore(n)))[1] # DataRow(n)[1]

C4_ResetExactlyAtFileChange ==
    /\ \A n \in 1..NRows : n \in resets <=> (n <= Visited /\ FileBoundaryAt(n))
    /\ \A c \in 1..Len(calls) :
          FileBoundaryAt(calls[c].row) => calls[c].context = Placeholder

\* The second document opens with a respondent row, after an interviewer row
\* of the first document.
C4_Witness ==
    \E c \in 1..Len(calls) :
        /\ calls[c].row >= 2
        /\ InterviewerAt(calls[c].row - 1)
        /\ FileBoundaryAt(calls[c].row)
        /\ calls[c].row \in resets
        /\ calls[c].context = Placeholder

---------------------------------------------------------------------------
(* C5 as stated: whatever the service returns or raises for a row, the run
   does not abort: once the call has returned, only an I/O error can end the
   run, and the row is written. *)
C5_ServiceReplyNeverAborts ==
    \A c \in 1..Len(returned) :
        raised # "OSError" => (pc # "failed" /\ i >= calls[c].row)

(* C6 as stated: without a credential a run over a dataset that has rows is
   rejected before any row is handled or written, whatever the rows are, and
   never commits. *)
C6_RejectedBeforeAnyRow ==
    NoCredential /\ NRows >= 1 =>
       /\ i = 0
       /\ Len(fs[TempPath].rows) <= 1
       /\ pc # "done"

(* C7: without a credential classify_text_with_llm sends no request: it logs
   the error and raises ValueError. *)
C7_NoRequestWithoutCredential ==
    NoCredential =>
       /\ requests = 0
       /\ pc # "waiting"
       /\ returned = << >>
       /\ calls # << >> =>
             /\ raised = "ValueError"
             /\ \E k \in 1..Len(log) : log[k] = "OPENAI_API_KEY environment variable not set"

C7_Witness ==
    /\ NoCredential
    /\ calls # << >>
    /\ raised = "ValueError"
    /\ requests = 0

---------------------------------------------------------------------------
(* C8: an interviewer row is never sent to the classifier; it is written with
   the flag of "Interviewer" 1 and every other flag 0, with the rationale
   "Statement from interviewer.", and its statement is the running context. *)

InterviewerFlags ==
    [k \in 1..Len(RunCategories) |-> IF RunCategories[k] = "Interviewer" THEN "1" ELSE "0"]

C8_InterviewerRowWritten ==
    \A n \in 1..NRows :
        InterviewerAt(n) =>
           /\ \A c \in 1..Len(calls) : calls[c].row # n
           /\ (HasOutput /\ n <= i) =>
                 OutRow(n) = DataRow(n) \o InterviewerFlags \o <<"Statement from interviewer.">>
           /\ (pc = "loop" /\ n = i) => interviewer_context = DataRow(n)[4]

C8_Witness ==
    /\ pc = "loop"
    /\ i >= 1
    /\ InterviewerAt(i)
    /\ categories = <<"Cat1", "Interviewer">>
    /\ OutRow(i)[6] = "1"

---------------------------------------------------------------------------
(* C9: the classifier is called once for every full row of a speaker who is
   not an interviewer, in input order, never for another row, and after every
   earlier row was written. *)

RespondentsUpTo(m) == { n \in 1..m : RespondentAt(n) }

C9_OneCallPerRespondentRow ==
    /\ { calls[c].row : c \in 1..Len(calls) } = RespondentsUpTo(Visited)
    /\ \A c, d \in 1..Len(calls) : c < d => calls[c].row < calls[d].row
    /\ \A c \in 1..Len(calls) : calls[c].written = calls[c].row
    /\ pc = "done" => Len(calls) = Cardinality(RespondentsUpTo(NRows))

\* A committed run over an interviewer row, a short row and a respondent row.
C9_Witness ==
    /\ pc = "done"
    /\ Len(calls) = 1
    /\ \E n \in 1..NRows : InterviewerAt(n)
    /\ \E n \in 1..NRows : ~FullAt(n)

---------------------------------------------------------------------------
(* C10: the flag written for category c of a classified row is 1 when c is
   among the returned subthemes and 0 otherwise; a returned label that is no
   category sets no flag and raises nothing. *)

Labels(result) == { result.subthemes.items[k] : k \in 1..Len(result.subthemes.items) }

C10_FlagsAreReturnedSubthemes ==
    \A c \in 1..Len(returned) :
        returned[c].subthemes.iterable =>
           /\ ~(raised = "TypeError" /\ c = Len(returned))
           /\ (HasOutput /\ calls[c].row <= i) =>
                 \A k \in 1..Len(RunCategories) :
                     OutRow(calls[c].row)[4 + k] =
                        IF RunCategories[k] \in Labels(returned[c]) THEN "1" ELSE "0"

\* Two labels are returned, one a category and one not.
C10_Witness ==
    \E c \in 1..Len(returned) :
        /\ categories = <<"Cat1", "Interviewer">>
        /\ Labels(returned[c]) = {"Uncategorized", "Interviewer"}
        /\ HasOutput
        /\ calls[c].row <= i
        /\ OutRow(calls[c].row)[5] = "0"
        /\ OutRow(calls[c].row)[6] = "1"

---------------------------------------------------------------------------
(* C11: a row of fewer than 4 fields is written as it is, without flags or
   rationale; the classifier is not called for it, and the running context and
   the active source file stay as they were. *)

C11_ShortRowPassesThrough ==
    [][ (pc = "loop" /\ i < NRows /\ Len(DataRow(i + 1)) < 4 /\ pc' # "failed") =>
          /\ i' = i + 1
          /\ fs'[TempPath].rows = Append(fs[TempPath].rows, DataRow(i + 1))
          /\ calls' = calls
          /\ requests' = requests
          /\ interviewer_context' = interviewer_context
          /\ current_source_file' = current_source_file
          /\ pc' = "loop" ]_vars

\* A short row was written after an interviewer row set the context.
C11_Witness ==
    /\ pc = "loop"
    /\ i = 2
    /\ InterviewerAt(1)
    /\ DataRow(2) = << "only_two_cols", <<"Laura">> >>
    /\ OutRow(2) = DataRow(2)
    /\ interviewer_context = DataRow(1)[4]

---------------------------------------------------------------------------
(* C12 as stated: after a successful run the header has 4 + |C| + 1 columns
   and every data row of the output has that number of columns. *)

Arity == 4 + Len(RunCategories) + 1

C12_EveryRowHasHeaderArity ==
    pc = "done" /\ original # << >> =>
       /\ Len(fs[InputPath].rows[1]) = Arity
       /\ \A n \in 1..NRows : Len(fs[InputPath].rows[n + 1]) = Arity

(* C12 amended: after a successful run the header has 4 + |C| + 1 columns,
   every data row that had 4 fields has that number of columns, and a row of
   fewer than 4 fields keeps the number it had. *)
C12_FullRowsHaveHeaderArity ==
    pc = "done" /\ original # << >> =>
       /\ Len(fs[InputPath].rows[1]) = Arity
       /\ \A n \in 1..NRows :
             Len(fs[InputPath].rows[n + 1]) =
                IF Len(DataRow(n)) = 4 THEN Arity ELSE Len(DataRow(n))

\* A committed dataset with a full row and a short row.
C12_Witness ==
    /\ pc = "done"
    /\ categories = <<"Cat1", "Interviewer">>
    /\ \E n \in 1..NRows : Len(fs[InputPath].rows[n + 1]) = 7
    /\ \E n \in 1..NRows : Len(fs[InputPath].rows[n + 1]) = 2

---------------------------------------------------------------------------
(* C14: after a successful run the output has one data row for every input
   data row, in the same order, each beginning with the fields (up to 4) of
   its input row. *)

Prefix(row, m) == SubSeq(row, 1, IF Len(row) < m THEN Len(row) ELSE m)

C14_RowsKeptInOrder ==
    pc = "done" =>
       /\ Len(fs[InputPath].rows) = Len(original)
       /\ \A n \in 1..NRows : Prefix(fs[InputPath].rows[n + 1], 4) = Prefix(DataRow(n), 4)

\* Three rows of three kinds, committed.
C14_Witness ==
    /\ pc = "done"
    /\ NRows = 3
    /\ InterviewerAt(1) /\ ~FullAt(2) /\ RespondentAt(3)
    /\ fs[InputPath].rows[4][4] = "3"

---------------------------------------------------------------------------
(* C13 as stated: a second run on the dataset a first run produced, with the
   same categories and the same answers of the classifier, leaves the dataset
   as the first run left it. *)

\* The second call got, call for call, the answers the first call got.
SameAnswers ==
    /\ Len(returned) % 2 = 0
    /\ \A k \in 1..(Len(returned) \div 2) : returned[k] = returned[k + Len(returned) \div 2]

C13_SecondRunChangesNothing ==
    run = 2 /\ pc = "done" /\ SameAnswers => fs[InputPath].rows = original

---------------------------------------------------------------------------
(* C15: with a credential, classify_text_with_llm never raises.  It returns
   the decoded object as it is when the reply is a JSON object with both
   "subthemes" and "rationale"; subthemes ["ERROR"] with the rationale
   "JSON decoding error..." when the reply is not JSON; subthemes ["ERROR"]
   with the rationale "Classification error..." when the reply is JSON of
   another shape or the service call failed. *)

IsSentinel(result, diagnostic) ==
    /\ result.isDict
    /\ result.keys = {"subthemes", "rationale"}
    /\ result.subthemes.iterable
    /\ result.subthemes.items = <<"ERROR">>
    /\ result.rationale = diagnostic

WellShaped(reply) ==
    /\ reply.transport = "ok"
    /\ reply.isJson
    /\ reply.value.isDict
    /\ "subthemes" \in reply.value.keys
    /\ "rationale" \in reply.value.keys

C15_ClassifierNeverRaisesWithCredential ==
    (direct_call.outcome \in {"returned", "raised"} /\ ~NoCredential) =>
       /\ direct_call.outcome = "returned"
       /\ LET reply == direct_call.reply
              result == direct_call.result[1]
          IN  IF WellShaped(reply) THEN result = reply.value
              ELSE IF reply.transport = "ok" /\ ~reply.isJson
                   THEN IsSentinel(result, "JSON decoding error")
              ELSE IsSentinel(result, "Classification error")

\* A JSON object without "rationale" was answered with the sentinel.
C15_Witness ==
    /\ direct_call.outcome = "returned"
    /\ direct_call.reply.isJson
    /\ direct_call.reply.value.isDict
    /\ direct_call.reply.value.keys = {"subthemes", "extra"}
    /\ direct_call.result[1].rationale = "Classification error"

---------------------------------------------------------------------------
(* C16 as stated: a failed run of process_csv_with_llm is told from a
   successful one by its caller; the window does not show the classification
   as complete when the dataset was not rewritten. *)

C16_CompleteOnlyWhenRewritten ==
    step2_status = "Complete" => pc = "done"

---------------------------------------------------------------------------
(* Segmentation: what the properties speak of.  The lines are taken from the
   scripts the documents were written from, not from the text the segmenter
   reads. *)

Registry ==
    IF speaker_list = << >>
    THEN { DefaultSpeakerNames[k] : k \in 1..Len(DefaultSpeakerNames) }
    ELSE { speaker_list[k] : k \in 1..Len(speaker_list) }

Documents == 1..Len(docx_files)
LinesIn(f) == 1..Len(docx_files[f].script)
ScriptAt(f, n) == docx_files[f].script[n]

IsBlank(l) == l.label = << >> /\ l.timestamp = << >> /\ l.text = << >>

\* The first word of a line that is not blank.
LeadingToken(l) == IF l.label # << >> THEN l.label ELSE l.text

\* A registered label, then a timestamp or the end of the line.
IsTurnOpening(l) ==
    /\ l.label # << >>
    /\ l.label \in Registry
    /\ (l.timestamp # << >> \/ l.text = << >>)

\* Line n of document f has been taken.
Taken(f, n) ==
    \/ f <= file_idx
    \/ docx_pc = "lines" /\ f = file_idx + 1 /\ n <= line_idx

\* Line n of document f is the line taken last.
JustTaken(f, n) == docx_pc = "lines" /\ f = file_idx + 1 /\ n = line_idx

RowsFrom(f, n) == { k \in 1..Len(origin) : origin[k].file = f /\ origin[k].line = n }

\* The turn openings of document f up to line n, and the last of them.
OpeningsUpTo(f, n) == { m \in LinesIn(f) : m <= n /\ IsTurnOpening(ScriptAt(f, m)) }
LastOpening(f, n) == ScriptAt(f, Largest(OpeningsUpTo(f, n)))

\* The first line after n that is not blank, 0 when there is none.
NextSolid(f, n) ==
    LET later == { m \in LinesIn(f) : m > n /\ ~IsBlank(ScriptAt(f, m)) }
    IN  IF later = {} THEN 0 ELSE CHOOSE m \in later : \A x \in later : m <= x

\* The line the step takes, when it takes one.
TakesLine == docx_pc = "lines" /\ line_idx' = line_idx + 1
LineTaken == ScriptAt(file_idx + 1, line_idx + 1)

---------------------------------------------------------------------------
(* C17: a turn opening without statement text (a registered speaker alone, or
   a speaker and a timestamp) gives no row of its own and sets the current
   speaker and timestamp; when the next line that is not blank is not a turn
   opening, it becomes one row with that speaker, that timestamp (empty when
   the opening had none) and the line as the statement. *)

C17_BareOpeningGivesNoRowButSetsSpeaker ==
    \A f \in Documents : \A n \in LinesIn(f) :
       LET l == ScriptAt(f, n)
           m == NextSolid(f, n)
       IN  (Taken(f, n) /\ IsTurnOpening(l) /\ l.text = << >>) =>
              /\ RowsFrom(f, n) = {}
              /\ JustTaken(f, n) =>
                    current_speaker = l.label /\ current_timestamp = l.timestamp
              /\ (m # 0 /\ Taken(f, m) /\ ~IsTurnOpening(ScriptAt(f, m))) =>
                    \E k \in 1..Len(origin) :
                       /\ RowsFrom(f, m) = {k}
                       /\ processed_transcript_data[k][2] = l.label
                       /\ processed_transcript_data[k][3] = l.timestamp
                       /\ processed_transcript_data[k][4] = LineContent(ScriptAt(f, m))

\* "Bob 1:02:03", a blank line, then " ok ": one row, Bob's, at 1:02:03.
C17_Witness ==
    /\ docx_pc = "done"
    /\ Len(docx_files) = 2
    /\ Len(docx_files[2].script) = 3
    /\ ScriptAt(2, 1).label = Bob /\ ScriptAt(2, 1).timestamp # << >>
    /\ IsBlank(ScriptAt(2, 2))
    /\ ScriptAt(2, 3).text = <<"o", "k">>
    /\ Len(processed_transcript_data) = 1
    /\ processed_transcript_data[1][2] = Bob
    /\ processed_transcript_data[1][3] = <<"1", ":", "0", "2", ":", "0", "3">>

---------------------------------------------------------------------------
(* C18: a step that takes a line that is not a turn opening, blank or not,
   leaves the current speaker and timestamp as they were, and the row it adds,
   if any, carries the speaker and the timestamp of the last turn opening of
   the same document. *)

C18_ContinuationInheritsOpening ==
    [][ (TakesLine /\ ~IsTurnOpening(LineTaken)) =>
           /\ current_speaker' = current_speaker
           /\ current_timestamp' = current_timestamp
           /\ Len(processed_transcript_data') > Len(processed_transcript_data) =>
                 /\ OpeningsUpTo(file_idx + 1, line_idx) # {}
                 /\ processed_transcript_data'[Len(processed_transcript_data')][2]
                       = LastOpening(file_idx + 1, line_idx).label
                 /\ processed_transcript_data'[Len(processed_transcript_data')][3]
                       = LastOpening(file_idx + 1, line_idx).timestamp ]_vars

\* Bob alone, then Bob with a timestamp, then a continuation that carries it.
C18_Witness ==
    /\ docx_pc = "lines"
    /\ line_idx = 3
    /\ ScriptAt(file_idx + 1, 1).label = Bob /\ ScriptAt(file_idx + 1, 1).timestamp = << >>
    /\ ScriptAt(file_idx + 1, 2).label = Bob /\ ScriptAt(file_idx + 1, 2).timestamp # << >>
    /\ ScriptAt(file_idx + 1, 3).label = << >> /\ ScriptAt(file_idx + 1, 3).text # << >>
    /\ Len(processed_transcript_data) = 1
    /\ processed_transcript_data[1][3] = ScriptAt(file_idx + 1, 2).timestamp
    /\ current_timestamp = ScriptAt(file_idx + 1, 2).timestamp

---------------------------------------------------------------------------
(* C19: in every document the lines before its first turn opening give no
   row and leave no speaker active, also after a document that ended with a
   speaker active; every row carries the speaker and the timestamp of a turn
   opening of its own document, the last one up to its line. *)

C19_StateResetForEachDocument ==
    /\ \A f \in Documents : \A n \in LinesIn(f) :
          (Taken(f, n) /\ OpeningsUpTo(f, n) = {}) =>
             /\ RowsFrom(f, n) = {}
             /\ JustTaken(f, n) => current_speaker = None /\ current_timestamp = None
    /\ \A k \in 1..Len(origin) :
          /\ OpeningsUpTo(origin[k].file, origin[k].line) # {}
          /\ processed_transcript_data[k][2] = LastOpening(origin[k].file, origin[k].line).label
          /\ processed_transcript_data[k][3]
                = LastOpening(origin[k].file, origin[k].line).timestamp

\* The first document ended with Bob active; the second begins with a line
\* that is no turn opening, which gave no row, and goes on to give one.
C19_Witness ==
    /\ Len(docx_files) = 2
    /\ docx_files[1].readable
    /\ IsTurnOpening(ScriptAt(1, 1))
    /\ file_idx = 1
    /\ docx_pc = "lines"
    /\ line_idx = 3
    /\ ~IsBlank(ScriptAt(2, 1)) /\ ~IsTurnOpening(ScriptAt(2, 1))
    /\ RowsFrom(2, 1) = {}
    /\ RowsFrom(2, 3) # {}

---------------------------------------------------------------------------
(* C20: a line that is not blank and whose leading token is no registered
   label (another name, the beginning of a registered label, a registered
   label in another case) is not a turn opening: the current speaker and
   timestamp stay, and when a speaker is active the whole line, token and
   timestamp included, becomes a row of that speaker. *)

C20_UnregisteredTokenIsContinuation ==
    [][ (TakesLine /\ ~IsBlank(LineTaken) /\ LeadingToken(LineTaken) \notin Registry) =>
           /\ current_speaker' = current_speaker
           /\ current_timestamp' = current_timestamp
           /\ IF current_speaker = None
              THEN processed_transcript_data' = processed_transcript_data
              ELSE /\ Len(processed_transcript_data') = Len(processed_transcript_data) + 1
                   /\ SubSeq(processed_transcript_data', 1, Len(processed_transcript_data))
                         = processed_transcript_data
                   /\ SubSeq(processed_transcript_data'[Len(processed_transcript_data')], 2, 4)
                         = << current_speaker, current_timestamp, LineContent(LineTaken) >> ]_vars

\* "alice 10:00 hi" became a row of Alice, and "Al 10:01 x" another.
C20_Witness ==
    /\ Alice \in Registry /\ Al \notin Registry
    /\ Len(processed_transcript_data) = 3
    /\ processed_transcript_data[2][2] = Alice
    /\ processed_transcript_data[2][4] = LineContent(ScriptAt(origin[2].file, origin[2].line))
    /\ ScriptAt(origin[2].file, origin[2].line).label = AliceLower
    /\ processed_transcript_data[3][2] = Alice
    /\ processed_transcript_data[3][4] = <<"A", "l", " ", "1", "0", ":", "0", "1", " ", "x">>

---------------------------------------------------------------------------
(* The turns of a document, read off its script: an opening with text is a
   turn, another line that is not blank is a turn of the speaker active, if
   there is one. *)

NoOne == << >>

RECURSIVE TurnsFrom(_, _, _, _)
TurnsFrom(script, n, speaker, timestamp) ==
    IF n > Len(script) THEN << >>
    ELSE LET l == script[n] IN
         IF IsBlank(l) THEN TurnsFrom(script, n + 1, speaker, timestamp)
         ELSE IF IsTurnOpening(l)
         THEN (IF l.text # << >> THEN << << l.label, l.timestamp, l.text >> >> ELSE << >>)
              \o TurnsFrom(script, n + 1, l.label, l.timestamp)
         ELSE (IF speaker # NoOne THEN << << speaker, timestamp, LineContent(l) >> >>
               ELSE << >>)
              \o TurnsFrom(script, n + 1, speaker, timestamp)

\* The file name of document f, and its turns tagged with it.
NameOf(f) == docx_files[f].path.stem \o docx_files[f].path.ext
TaggedTurns(f) ==
    LET turns == TurnsFrom(docx_files[f].script, 1, NoOne, << >>)
    IN  [k \in 1..Len(turns) |-> << NameOf(f) >> \o turns[k]]

\* The turns of the readable documents among the first n, in batch order.
RECURSIVE TurnsOfReadable(_)
TurnsOfReadable(n) ==
    IF n = 0 THEN << >>
    ELSE TurnsOfReadable(n - 1)
         \o (IF docx_files[n].readable THEN TaggedTurns(n) ELSE << >>)

Unreadable == { f \in Documents : ~docx_files[f].readable }
Logged(message) == { k \in 1..Len(docx_log) : docx_log[k] = message }
Ended == docx_pc \in {"returned", "done", "failed"}

---------------------------------------------------------------------------
(* C24: a document that cannot be opened is passed over with a logged
   diagnostic and the batch goes on: between documents the rows collected
   are those of the readable documents so far, in batch order, and so is the
   output, as if the unreadable document were not in the batch. *)

C24_UnreadableDocumentIsSkipped ==
    /\ docx_pc = "file" =>
          /\ processed_transcript_data = TurnsOfReadable(file_idx)
          /\ Cardinality(Logged("Error opening or reading .docx file"))
                = Cardinality({ f \in Unreadable : f <= file_idx })
    /\ docx_pc = "done" =>
          output_csv.rows = << << "source_file", "name", "timestamp", "statement" >> >>
                            \o TurnsOfReadable(Len(docx_files))

\* The first file could not be read and the second gave two rows.
C24_Witness ==
    /\ docx_pc = "done"
    /\ Unreadable = {1}
    /\ Len(docx_files) = 2
    /\ Len(output_csv.rows) = 3
    /\ output_csv.rows[2][1] = "a.docx"

---------------------------------------------------------------------------
(* C25 as stated: the CSV is written if and only if the batch gave a row;
   without a row the path is left as it was and a diagnostic is logged. *)

Written ==
    output_csv = [exists |-> TRUE,
                  rows |-> << << "source_file", "name", "timestamp", "statement" >> >>
                           \o processed_transcript_data]
Untouched ==
    output_csv = IF input_source.kind = "folder" THEN OldOutput
                 ELSE [exists |-> FALSE, rows |-> << >>]
LastLogged == docx_log[Len(docx_log)]

C25_WrittenIffRows ==
    Ended =>
       /\ Written <=> processed_transcript_data # << >>
       /\ processed_transcript_data = << >> => Untouched /\ docx_log # << >>

(* C25 amended: without a row the path is left as it was and a diagnostic is
   logged; with a row the CSV is written, header and rows, unless the write
   raises, and then the error is logged and the path holds what it held or a
   beginning of the new file. *)
C25_WrittenIffRowsUnlessWriteFails ==
    Ended =>
       IF processed_transcript_data = << >>
       THEN /\ Untouched
            /\ docx_pc = "returned"
            /\ docx_log # << >>
            /\ LastLogged \in {"does not exist or is not a directory",
                               "No .docx files found", "No statements were found"}
       ELSE \/ docx_pc = "done" /\ Written
            \/ /\ docx_pc = "failed"
               /\ LastLogged = "Error writing to .csv file"
               /\ ~Written

\* No line gave a row and the older result under the path is as it was.
C25_Witness ==
    /\ docx_pc = "returned"
    /\ Len(docx_files) = 2
    /\ Len(docx_files[2].script) = 3
    /\ processed_transcript_data = << >>
    /\ output_csv = OldOutput
    /\ LastLogged = "No statements were found"

---------------------------------------------------------------------------
(* C26: the rows are in the order of the batch and, within a document, of
   its lines, so the rows of a document are together; each row carries the
   file name of the document its line is in; the CSV holds the header and
   these rows in this order. *)

C26_RowsInBatchAndLineOrder ==
    /\ Len(origin) = Len(processed_transcript_data)
    /\ \A k \in 1..Len(origin) :
          /\ processed_transcript_data[k][1] = NameOf(origin[k].file)
          /\ k > 1 =>
                \/ origin[k - 1].file < origin[k].file
                \/ /\ origin[k - 1].file = origin[k].file
                   /\ origin[k - 1].line < origin[k].line
    /\ docx_pc = "done" =>
          /\ Len(output_csv.rows) = Len(processed_transcript_data) + 1
          /\ \A k \in 1..Len(processed_transcript_data) :
                output_csv.rows[k + 1] = processed_transcript_data[k]

\* Two documents gave rows: one of the first, then two of the second.
C26_Witness ==
    /\ docx_pc = "done"
    /\ Len(origin) = 3
    /\ origin[1].file = 1 /\ origin[2].file = 2 /\ origin[3].file = 2
    /\ output_csv.rows[2][1] = "first.docx"
    /\ output_csv.rows[4][1] = "a.docx"

---------------------------------------------------------------------------
(* Labels: the step appends one row, with the file name of the document being
   read and the given speaker, timestamp and statement. *)

AppendsRow(speaker, timestamp, statement) ==
    processed_transcript_data' =
        Append(processed_transcript_data,
               << NameOf(file_idx + 1), speaker, timestamp, statement >>)

\* The step treats the line as one that opens no turn.
TakenAsContinuation ==
    /\ current_speaker' = current_speaker
    /\ current_timestamp' = current_timestamp
    /\ IF current_speaker = None
       THEN processed_transcript_data' = processed_transcript_data
       ELSE AppendsRow(current_speaker, current_timestamp, LineContent(LineTaken))

---------------------------------------------------------------------------
(* C21: with "Al" and "Alice" both registered, in either order, a line
   "Al <timestamp> <text>" is a turn of "Al" and a line "Alice <timestamp>
   <text>" is a turn of "Alice": the step sets the speaker to the label of
   the line and appends the row with that label. *)

C21_PrefixLabelsAttributedInBothOrders ==
    [][ (/\ TakesLine
         /\ { Al, Alice } \subseteq Registry
         /\ LineTaken.label \in { Al, Alice }
         /\ LineTaken.timestamp # << >>) =>
           /\ current_speaker' = LineTaken.label
           /\ current_timestamp' = LineTaken.timestamp
           /\ AppendsRow(LineTaken.label, LineTaken.timestamp, LineTaken.text) ]_vars

\* With "Al" first in the list, "Alice 10:00 x" gave a row of Alice and
\* "Al 10:01 x" a row of Al.
C21_Witness ==
    /\ docx_pc = "done"
    /\ speaker_list = << Al, Alice >>
    /\ Len(processed_transcript_data) = 2
    /\ processed_transcript_data[1][2] = Alice
    /\ processed_transcript_data[1][4] = <<"x">>
    /\ processed_transcript_data[2][2] = Al

---------------------------------------------------------------------------
(* C22: with "Dr. Smith" registered, the line "Dr. Smith 10:00 H" is a turn
   of "Dr. Smith", and the line "DrX Smith 10:00 H" opens no turn: speaker
   and timestamp stay and the whole line is a statement of the speaker
   active, if there is one. *)

C22_LabelsAreLiteral ==
    [][ (TakesLine /\ DrSmith \in Registry) =>
           /\ LineTaken.label = DrSmith =>
                 /\ current_speaker' = DrSmith
                 /\ current_timestamp' = LineTaken.timestamp
                 /\ AppendsRow(DrSmith, LineTaken.timestamp, LineTaken.text)
           /\ LineTaken.label = DrXSmith => TakenAsContinuation ]_vars

\* "Dr. Smith 10:00 H" was a turn, and "DrX Smith 10:00 H" a statement in it.
C22_Witness ==
    /\ docx_pc = "done"
    /\ speaker_list = << DrSmith >>
    /\ Len(processed_transcript_data) = 2
    /\ processed_transcript_data[1] =
          << "a.docx", DrSmith, <<"1", "0", ":", "0", "0">>, <<"H">> >>
    /\ processed_transcript_data[2][2] = DrSmith
    /\ processed_transcript_data[2][4] =
          DrXSmith \o <<" ", "1", "0", ":", "0", "0", " ", "H">>

---------------------------------------------------------------------------
(* C23 as stated: every row has a statement that is not empty, a speaker of
   the registry in effect and the file name of the document its line is in,
   and no line gives more than one row. *)

C23_RowsAreWellFormed ==
    /\ Len(origin) = Len(processed_transcript_data)
    /\ \A k \in 1..Len(processed_transcript_data) :
          /\ processed_transcript_data[k][4] # << >>
          /\ processed_transcript_data[k][2] \in Registry
          /\ processed_transcript_data[k][1] = NameOf(origin[k].file)
    /\ \A f \in Documents : \A n \in LinesIn(f) : Cardinality(RowsFrom(f, n)) <= 1

---------------------------------------------------------------------------
(* C28: with a progress callback, the k-th call is (k, total), where total is
   the number of lines, blank ones included, of the scripts of the readable
   documents; there is one call for each line taken, and when the function
   has ended the last call is (total, total). *)

RECURSIVE LinesOfReadable(_)
LinesOfReadable(n) ==
    IF n = 0 THEN 0
    ELSE LinesOfReadable(n - 1)
         + (IF docx_files[n].readable THEN Len(docx_files[n].script) ELSE 0)

LinesTaken ==
    Cardinality({ fn \in Documents \X (1..(MaxLines + 1)) :
                     /\ fn[2] \in LinesIn(fn[1])
                     /\ docx_files[fn[1]].readable
                     /\ Taken(fn[1], fn[2]) })

C28_ProgressCountsLines ==
    (progress_callback /\ docx_pc # "start") =>
       /\ \A k \in 1..Len(progress) : progress[k] = << k, LinesOfReadable(Len(docx_files)) >>
       /\ Len(progress) <= LinesOfReadable(Len(docx_files))
       /\ Len(progress) = LinesTaken
       /\ Ended => Len(progress) = LinesOfReadable(Len(docx_files))

\* Three documents, one unreadable, one of two paragraphs, one of a single
\* paragraph of three lines with a blank one: five calls, the last (5, 5).
C28_Witness ==
    /\ docx_pc = "done"
    /\ Len(docx_files) = 3
    /\ Len(docx_files[3].paragraphs) = 1
    /\ Len(docx_files[3].script) = 3
    /\ IsBlank(docx_files[3].script[2])
    /\ Len(progress) = 5
    /\ progress[5] = << 5, 5 >>

---------------------------------------------------------------------------
(* C29: a cancellation asked for while the run is under way is honoured only
   when process_csv_with_llm has returned: no call is waiting for its answer
   then and every answer received has been dealt with; and from the request
   on the dataset is the original or the complete rewrite, never a part. *)

C29_CancellationWaitsForTheRun ==
    /\ step2_status = "Cancelled" =>
          /\ cancel_requested
          /\ pc \in {"done", "failed", "returned"}
          /\ Len(returned) = Len(calls)
          /\ pc = "done" => Len(calls) = Cardinality({ n \in 1..NRows :
                                  /\ Len(DataRow(n)) >= 4
                                  /\ \A k \in 1..Len(DataRow(n)[2]) :
                                        DataRow(n)[2][k] # "Interviewer" })
    /\ cancel_requested =>
          /\ fs[InputPath].exists
          /\ \/ fs[InputPath].rows = original
             \/ pc = "done" /\ CompleteRewrite(fs[InputPath].rows)

\* Cancellation was asked for with one row written and a call in flight, and
\* the run goes on.
C29_Witness ==
    /\ cancel_requested
    /\ processing
    /\ step2_status = "Classifying"
    /\ pc = "waiting"
    /\ i >= 1
    /\ fs[InputPath].rows = original

---------------------------------------------------------------------------
(* C30 as stated: a manager constructed on the file after save_settings(s)
   has the settings s; after two saves, those of the second. *)

Constructed == sm_pc \in {"loaded", "load failed", "created"}
LastSave == saves[Len(saves)]

C30_ReloadGivesLastSaved ==
    (Constructed /\ saves # << >>) => settings = LastSave.value

\* A dict with str keys whose values are strings, numbers, None, lists and
\* such dicts.
RECURSIVE IsJsonNative(_)
IsJsonNative(x) ==
    \/ x.kind \in {"str", "int", "None"}
    \/ x.kind = "list" /\ \A k \in 1..Len(x.items) : IsJsonNative(x.items[k])
    \/ /\ x.kind = "dict"
       /\ \A k \in 1..Len(x.items) :
             /\ x.items[k].items[1].kind = "str"
             /\ IsJsonNative(x.items[k].items[2])

(* C30 amended: when the last save_settings(s) returned True, s is a dict of
   JSON-native values with string keys, and the file can be read, a manager
   constructed on the file has settings equal to s, with no key of an
   earlier save; when the last call was save_settings(None) and returned
   True, it has the settings of the call before on the same manager, if those
   are such a dict. *)
C30_ReloadGivesLastSavedWhenWritten ==
    (sm_pc = "loaded" /\ saves # << >> /\ LastSave.result) =>
       /\ (LastSave.value.kind = "dict" /\ IsJsonNative(LastSave.value)) =>
             settings = LastSave.value
       /\ (/\ LastSave.value.kind = "None"
           /\ Len(saves) >= 2
           /\ saves[Len(saves) - 1].manager = LastSave.manager
           /\ saves[Len(saves) - 1].value.kind = "dict"
           /\ IsJsonNative(saves[Len(saves) - 1].value)) =>
             settings = saves[Len(saves) - 1].value

\* Two saves with different keys, both written, and a second manager: it has
\* the settings of the second save.
C30_Witness ==
    /\ sm_pc = "loaded"
    /\ managers = 2
    /\ Len(saves) = 2
    /\ saves[1].value.kind = "dict" /\ Len(saves[1].value.items) = 2
    /\ saves[1].value.items[2].items[1].v = "model"
    /\ saves[1].result /\ saves[2].result
    /\ Len(saves[2].value.items) = 2
    /\ saves[2].value.items[2].items[1].v = "categories"
    /\ settings = saves[2].value

---------------------------------------------------------------------------
(* C27 as stated: over the two steps, the context a respondent row is
   classified with is the placeholder or the statement of an interviewer row
   before it that comes from the same document of the batch; documents with
   the same file name in different folders included. *)

C27_ContextNeverCrossesDocuments ==
    \A c \in 1..Len(calls) :
       \/ calls[c].context = Placeholder
       \/ \E r \in 1..(calls[c].row - 1) :
             /\ origin[r].file = origin[calls[c].row].file
             /\ original[r + 1][2] = <<"Interviewer">>
             /\ original[r + 1][4] = calls[c].context

---------------------------------------------------------------------------
(* C33 as stated: when the categories hold "Interviewer", the "Interviewer"
   flag of a written row is 1 exactly when the speaker of the row is an
   interviewer; no respondent row has it, whatever the classifier returned. *)

InterviewerColumns == { k \in 1..Len(RunCategories) : RunCategories[k] = "Interviewer" }
WrittenRows == { n \in 1..NRows : HasOutput /\ n + 1 <= Len(OutRows) }

C33_InterviewerFlagOnlyForInterviewers ==
    \A n \in WrittenRows : \A k \in InterviewerColumns :
       FullAt(n) => (OutRow(n)[Len(DataRow(n)) + k] = "1" <=> InterviewerAt(n))

---------------------------------------------------------------------------
(* C34: a run on a dataset ends, and stays, in one of two states: the
   complete rewrite is under the dataset path, or the original is and there
   is no temporary file (a run on a path without a file ends at once and
   creates nothing).  The row index only goes up, by one, so that each row is
   taken once; the classifier is called for rows in increasing order. *)

Committed ==
    /\ pc = "done"
    /\ i = NRows
    /\ CompleteRewrite(fs[InputPath].rows)
    /\ ~fs[TempPath].exists

RolledBack ==
    /\ pc \in {"failed", "raised", "returned"}
    /\ ~fs[TempPath].exists
    /\ fs[InputPath].rows = original
    /\ fs[InputPath].exists <=> pc # "returned"

C34_RunTerminatesCommittedOrRolledBack ==
    /\ <>[](Committed \/ RolledBack)
    /\ [][i' = i \/ i' = i + 1]_vars
    /\ [](\A c \in 1..Len(calls) : c > 1 => calls[c - 1].row < calls[c].row)

\* A run of three rows, two of them classified, has been committed.
C34_Witness ==
    /\ Committed
    /\ NRows = 3
    /\ Len(calls) = 2
    /\ Len(returned) = 2
    /\ requests = 2

---------------------------------------------------------------------------
(* C38 as stated: a call of save_settings that cannot write the file returns
   False and leaves the settings in memory as they were before the call. *)

SaveReturnsFalse == Len(saves') = Len(saves) + 1 /\ ~saves'[Len(saves')].result

C38_FailedSaveLeavesMemoryUnchanged ==
    [][ SaveReturnsFalse => settings' = settings ]_vars

---------------------------------------------------------------------------
(* C32: a line that is not blank and is no turn opening (a registered label
   followed by text that is no timestamp, as "Alice hi" or "Alice 1:23"; a
   label that is not registered) leaves speaker and timestamp as they are and
   is, when a speaker is active, a row of that speaker with the whole line as
   the statement; a line with a registered label followed by a timestamp or
   by nothing sets the timestamp to that of the line. *)

\* The label the line is written with, if any, has no space at its end.
PlainLabel(l) == l.label = << >> \/ l.label[Len(l.label)] # " "

C32_LabelThenTextIsContinuation ==
    [][ (TakesLine /\ ~IsBlank(LineTaken) /\ PlainLabel(LineTaken)) =>
           IF IsTurnOpening(LineTaken)
           THEN /\ current_timestamp' = LineTaken.timestamp
                /\ current_speaker' # None
           ELSE TakenAsContinuation ]_vars

\* "Alice 10:00 x" opened a turn and "Alice 1:23" after it is a statement of
\* that turn.
C32_Witness ==
    /\ docx_pc = "done"
    /\ speaker_list = << Alice, Al >>
    /\ Len(processed_transcript_data) = 2
    /\ processed_transcript_data[1][4] = <<"x">>
    /\ processed_transcript_data[2] =
          << "a.docx", Alice, <<"1", "0", ":", "0", "0">>,
             Alice \o <<" ", "1", ":", "2", "3">> >>

---------------------------------------------------------------------------
(* C40: a document whose processing logs "Error opening or reading"
   contributes no row: when the diagnostic is logged for a document, no row
   collected so far comes from that document, and the rows written are the
   rows collected. *)

LogsReadError ==
    /\ Len(docx_log') > Len(docx_log)
    /\ docx_log'[Len(docx_log')] = "Error opening or reading .docx file"

C40_FailedDocumentContributesNoRow ==
    [][ /\ LogsReadError =>
             \A k \in 1..Len(origin') : origin'[k].file # file_idx + 1
        /\ (docx_pc' = "done" /\ docx_pc # "done") =>
             output_csv'.rows = << CsvHeaderRow >> \o processed_transcript_data ]_vars

---------------------------------------------------------------------------
(* The window: background functions and cancellation *)

StartsJob == Len(threads') > Len(threads)
EndsJob(function) ==
    /\ Len(threads') < Len(threads)
    /\ \E k \in 1..Len(threads) : threads[k] = function
ClickOnCancel == cancel_requested' /\ ~cancel_requested

(* C35: a cancellation request never interrupts a run: the click leaves the
   run as it is; a conversion that ends with the request pending has taken
   every document and every line and has written its rows, a classification
   that ends with it pending has returned by itself and, when it committed,
   committed every row; the status is then Cancelled, where it is Complete
   without the request. *)
C35_CancellationNeverInterrupts ==
    [][ /\ ClickOnCancel => UNCHANGED << docxVars, csvVars >>
        /\ (EndsJob("run_conversion") /\ cancel_requested) =>
              /\ Ended
              /\ file_idx = Len(docx_files)
              /\ processed_transcript_data = TurnsOfReadable(Len(docx_files))
              /\ \/ docx_pc = "done" /\ Written
                 \/ docx_pc = "returned" /\ processed_transcript_data = << >>
                 \/ docx_pc = "failed" /\ LastLogged = "Error writing to .csv file"
              /\ step1_status' = "Cancelled"
        /\ (EndsJob("run_conversion") /\ ~cancel_requested /\ docx_pc = "done") =>
              step1_status' = "Complete"
        /\ (EndsJob("run_classification") /\ cancel_requested) =>
              /\ pc \in {"done", "failed", "returned", "raised"}
              /\ Len(returned) = Len(calls)
              /\ pc = "done" => CompleteRewrite(fs[InputPath].rows)
              /\ pc # "raised" => step2_status' = "Cancelled"
        /\ (EndsJob("run_classification") /\ ~cancel_requested /\ pc = "done") =>
              step2_status' = "Complete" ]_vars

\* A conversion ended as cancelled with its three rows written.
C35_Witness ==
    /\ step1_status = "Cancelled"
    /\ cancel_requested
    /\ ~processing
    /\ docx_pc = "done"
    /\ Len(output_csv.rows) = 4

(* C36: at most one background function runs at any time; one is started
   only with the processing flag false, which it sets, and the flag becomes
   false again only when that function's thread ends. *)
C36_AtMostOneJob ==
    /\ [](Len(threads) <= 1 /\ (processing <=> threads # << >>))
    /\ [][ /\ StartsJob => ~processing /\ processing'
           /\ (processing /\ ~processing') => Len(threads') < Len(threads) ]_vars

\* A classification runs after a conversion that completed.
C36_Witness ==
    /\ threads = <<"run_classification">>
    /\ processing
    /\ step1_status = "Complete"
    /\ pc = "waiting"

(* C37: at the start of every conversion or classification run the Cancel
   control is visible and enabled and the cancellation flag is false. *)
C37_CancelAvailableInEveryRun ==
    [][ StartsJob =>
           /\ btn_cancel'.visible
           /\ ~btn_cancel'.disabled
           /\ ~cancel_requested' ]_vars

---------------------------------------------------------------------------
(* The validator, read from what the file is and from the lines it was
   written with. *)

CandidateLines == candidate.doc.script \o candidate.cells
SolidLines == SelectSeq(CandidateLines, LAMBDA l : ~IsBlank(l))
Validated == validation.state = "returned"

\* The first of the structural checks that fails, in their order.
FirstFailure ==
    IF ~candidate.exists THEN "File not found or can't be read."
    ELSE IF ~candidate.isfile THEN "This path is not a file."
    ELSE IF ~candidate.accessible THEN "File can't be read"
    ELSE IF ~candidate.library THEN "python-docx library is not installed."
    ELSE IF ~candidate.doc.readable THEN "This file is not a valid DOCX document."
    ELSE IF SolidLines = << >> THEN "This document is empty"
    ELSE "none"

NoSpeakerLine ==
    /\ speaker_list # << >>
    /\ \A k \in 1..Len(SolidLines) : ~IsTurnOpening(SolidLines[k])
WithControlChar ==
    { k \in 1..Len(SolidLines) :
         \E n \in 1..Len(SolidLines[k].text) : SolidLines[k].text[n] = "\f" }
Warned(message) == \E k \in 1..Len(validation.warnings) : validation.warnings[k] = message

(* C31: validate_docx_file stops at the first structural failure, in the
   order of the checks: a result is invalid exactly when it carries one
   error, which is that of the first failing check; an invalid result has no
   warning; a document without a speaker line or with control characters is
   valid and carries the warnings. *)
C31_OneErrorOrWarnings ==
    Validated =>
       /\ validation.is_valid <=> validation.errors = << >>
       /\ ~validation.is_valid <=> Len(validation.errors) = 1
       /\ ~validation.is_valid => validation.warnings = << >>
       /\ ~validation.is_valid <=> FirstFailure # "none"
       /\ ~validation.is_valid => validation.errors[1] = FirstFailure
       /\ FirstFailure = "none" =>
             /\ Warned("No speaker names were found in this document.") <=> NoSpeakerLine
             /\ Warned("contains an unusual control character") <=> WithControlChar # {}
             /\ Warned("more line(s) with unusual characters") <=>
                    Cardinality(WithControlChar) > 3
       /\ \A k \in 1..Len(validation.warnings) :
             validation.warnings[k] \in { "No speaker names were found in this document.",
                                          "contains an unusual control character",
                                          "more line(s) with unusual characters" }

\* A document with both findings is valid, with its two warnings.
C31_Witness ==
    /\ Validated
    /\ validation.is_valid
    /\ speaker_list = << Alice, Bob >>
    /\ candidate.cells = << >>
    /\ Len(candidate.doc.script) = 1
    /\ Len(validation.warnings) = 2

(* C39: a file the validator reports valid, without a speaker warning, for a
   list of names that is not empty gives at least one row and an output file
   when process_docx_files is run on it with the same list. *)
C39_ValidatedFileGivesRows ==
    ( /\ Validated
      /\ validation.is_valid
      /\ speaker_list # << >>
      /\ ~Warned("No speaker names were found in this document.")
      /\ Ended )
    => /\ processed_transcript_data # << >>
       /\ docx_pc = "done"
       /\ output_csv.exists

====
